---- MODULE Spec2Model ----
(***************************************************************************)
(* Evaluation and pattern-analysis pipeline of the playlist agent:         *)
(*   console_watcher.py  LogParser (log text -> ParsedGeneration ->        *)
(*                       GenerationResult)                                 *)
(*   evaluator.py        ObjectiveEvaluator (hard requirements, dimension  *)
(*                       scores, overall score)                            *)
(*   comparator.py       GenerationComparator (batch -> ComparisonReport)  *)
(*                                                                         *)
(* Units.  The code computes with floats; the model uses fixed point:      *)
(*   fit values, energies, affinities, percentages : hundredths (0.85=85)  *)
(*   dimension scores                              : thousandths (10.0 =   *)
(*                                                   10000)                *)
(*   tempo (BPM)                                   : hundredths            *)
(*   dimension weights                             : hundredths (0.25=25)  *)
(*   overall score                                 : score * weight, i.e.  *)
(*                                                   units of 1/100000     *)
(* An Optional[float] field is a sequence of length 0 (None) or 1.         *)
(* An identifier such as "artist_3" is the pair <<"artist_", 3>>.          *)
(* A formatted message f"..." is a record [text, args]: the literal text   *)
(* and the formatted values, rounded as the format specification rounds.   *)
(***************************************************************************)
EXTENDS Integers, Sequences, FiniteSets, TLC

VARIABLES
    pc,        \* position of the driver: which operation comes next
    gen,       \* the GenerationResult at hand (or NoValue)
    ev,        \* the EvaluationResult returned by evaluate (or NoValue)
    text,      \* log text handed to LogParser.parse: a sequence of lines
    parsed,    \* what LogParser.parse returned: None, a ParsedGeneration, or a raise
    batch,     \* evaluations handed to GenerationComparator.compare
    report,    \* the ComparisonReport returned by compare (or NoValue)
    raised,    \* the exception that reached the caller ("" when none)
    saved,     \* files written by _save_report
    save_report, \* the save_report argument of compare (True by default)
    judge,     \* what the subjective stage met in the last evaluation (or NoValue)
    outcomes,  \* run_comparison_batch: "ok" or "failed" per combination attempted
    buffer,    \* ConsoleWatcher._buffer: the accumulated lines
    delivered, \* the ParsedGenerations handed to on_generation, in order
    chunks,    \* number of chunks _process_content has been called with
    writes,    \* attribute assignments made to the EvaluationResult after its construction
    file,      \* content of the file a CodeChange names
    change,    \* the CodeChange at hand: old_code, new_code, approved, applied (or NoValue)
    returned,  \* what the modifier or the tool returned (or NoValue)
    commits,   \* commits made by commit_change, in order
    log,       \* the lines of the watched log file
    last_size, \* watch_file: how much of the file was handed on, in lines
    current_size \* watch_file: the size stat() returned last, in lines

vars == <<pc, gen, ev, text, parsed, batch, report, raised, saved, save_report, judge, outcomes, buffer, delivered, chunks, writes, file, change, returned, commits, log, last_size, current_size>>

(***************************************************************************)
(* Bounds of the model.                                                    *)
(***************************************************************************)
MaxSlots == 3

\* A value standing for "no object here" (a variable not yet assigned).
NoValue == [none |-> TRUE]

(***************************************************************************)
(* Arithmetic and sequence helpers.                                        *)
(***************************************************************************)
Abs(x) == IF x < 0 THEN -x ELSE x

Min(a, b) == IF a <= b THEN a ELSE b

Max(a, b) == IF a >= b THEN a ELSE b

\* round(num / den) for den > 0, num >= 0: what ":.2f" / ":.0f" / ":.0%" print.
RoundDiv(num, den) == (2 * num + den) \div (2 * den)

RECURSIVE SeqSum(_)
SeqSum(s) == IF s = <<>> THEN 0 ELSE Head(s) + SeqSum(Tail(s))

RECURSIVE Count(_, _)
Count(s, x) == IF s = <<>> THEN 0
               ELSE (IF Head(s) = x THEN 1 ELSE 0) + Count(Tail(s), x)

Range(s) == {s[i] : i \in DOMAIN s}

\* Every sequence over S of length 0..n.
SeqsUpTo(S, n) == UNION {[1..k -> S] : k \in 0..n}

\* Python truthiness of an Optional[float]: None and 0.0 are falsy.
Truthy(opt) == opt # <<>> /\ opt[1] # 0

(***************************************************************************)
(* models.py                                                               *)
(***************************************************************************)
EffortTier == {"easy", "moderate", "strong", "hard", "max"}

SourceKind == {"likes", "recs", "third"}

Template == {"light", "tempo", "hiit", "intervals", "pyramid", "kicker"}

\* TrackSlot(...): the fields the evaluator and the comparator read.
TrackSlot(index, track_id, artist_id, artist_name, effort, segment, tempo, energy, duration_ms, tempo_fit, genre_affinity) ==
    [index |-> index, track_id |-> track_id, artist_id |-> artist_id,
     artist_name |-> artist_name, effort |-> effort, segment |-> segment,
     tempo |-> tempo, energy |-> energy, duration_ms |-> duration_ms,
     tempo_fit |-> tempo_fit, genre_affinity |-> genre_affinity]

\* GenerationResult with every field at its declared default, for the given
\* required fields (template, run_minutes).
GenerationResult(template, run_minutes) ==
    [template |-> template, run_minutes |-> run_minutes,
     genres |-> <<>>, decades |-> <<>>,
     track_ids |-> <<>>, sources |-> <<>>,
     total_seconds |-> 0,
     warmup_seconds |-> 0, cooldown_seconds |-> 0,
     warmup_target |-> 0, cooldown_target |-> 0,
     slots |-> <<>>,
     avg_tempo_fit |-> 0, avg_slot_fit |-> 0, avg_genre_affinity |-> 0,
     rediscovery_pct |-> 0, unique_artists |-> 0]

HardRequirementResult(name, passed, details) ==
    [name |-> name, passed |-> passed, details |-> details]

DimensionScore(name, score, weight, issues) ==
    [name |-> name, score |-> score, weight |-> weight, issues |-> issues]

\* A formatted message.
Msg(t, a) == [text |-> t, args |-> a]

(***************************************************************************)
(* config.py                                                               *)
(***************************************************************************)
\* Mutant: the variety weight mistyped, so that the weights no longer sum to 1.0.
DIMENSION_WEIGHTS_mistyped ==
    [tempo_fitness |-> 25, energy_arc |-> 25, slot_fitness |-> 20,
     variety |-> 10, flow |-> 10, filter_adherence |-> 5]

DIMENSION_WEIGHTS ==
    [tempo_fitness |-> 25, energy_arc |-> 25, slot_fitness |-> 20,
     variety |-> 15, flow |-> 10, filter_adherence |-> 5]

(***************************************************************************)
(* evaluator.py: ObjectiveEvaluator._check_hard_requirements               *)
(***************************************************************************)
\* Mutant: the tolerance applied to the overshoot only (abs() forgotten).
DurationGate_noabs(g) ==
    LET target_seconds == g.run_minutes * 60
        duration_ok == g.total_seconds - target_seconds <= 120
    IN  HardRequirementResult("Duration Compliance", duration_ok,
            Msg("Target: {}s, Actual: {}s, Diff: {}s",
                <<target_seconds, g.total_seconds, Abs(g.total_seconds - target_seconds)>>))

\* Duration compliance: |total_seconds - run_minutes*60| <= 120.
DurationGate(g) ==
    LET target_seconds == g.run_minutes * 60
        duration_ok == Abs(g.total_seconds - target_seconds) <= 120
    IN  HardRequirementResult("Duration Compliance", duration_ok,
            Msg("Target: {}s, Actual: {}s, Diff: {}s",
                <<target_seconds, g.total_seconds, Abs(g.total_seconds - target_seconds)>>))

WarmupGate(g) ==
    LET warmup_ok == Abs(g.warmup_seconds - g.warmup_target) <= 60
    IN  HardRequirementResult("Warmup Duration", warmup_ok,
            Msg("Target: {}s, Actual: {}s", <<g.warmup_target, g.warmup_seconds>>))

CooldownGate(g) ==
    LET cooldown_ok == Abs(g.cooldown_seconds - g.cooldown_target) <= 60
    IN  HardRequirementResult("Cooldown Duration", cooldown_ok,
            Msg("Target: {}s, Actual: {}s", <<g.cooldown_target, g.cooldown_seconds>>))

\* Mutant: an empty slot list passes vacuously.
BookendsGate_vacuous(g) ==
    LET n == Len(g.slots)
        bookends_ok == \A i \in {1, n} \cap DOMAIN g.slots : g.slots[i].effort = "easy"
    IN  HardRequirementResult("Effort Bookends", bookends_ok,
            Msg("First: {}, Last: {}",
                <<IF n > 0 THEN g.slots[1].effort ELSE "N/A",
                  IF n > 0 THEN g.slots[n].effort ELSE "N/A">>))

\* Effort bookends: the first and the last slot are easy; an empty list fails.
BookendsGate(g) ==
    LET n == Len(g.slots)
        bookends_ok == IF n > 0
                       THEN g.slots[1].effort = "easy" /\ g.slots[n].effort = "easy"
                       ELSE FALSE
    IN  HardRequirementResult("Effort Bookends", bookends_ok,
            Msg("First: {}, Last: {}",
                <<IF n > 0 THEN g.slots[1].effort ELSE "N/A",
                  IF n > 0 THEN g.slots[n].effort ELSE "N/A">>))

BackToBackGate(g) ==
    LET back_to_back == \E i \in 2..Len(g.slots) : g.slots[i].artist_id = g.slots[i-1].artist_id
    IN  HardRequirementResult("No Back-to-Back Artist", ~back_to_back,
            Msg(IF ~back_to_back THEN "No violations" ELSE "Found back-to-back same artist", <<>>))

ArtistCapGate(g) ==
    LET artists == {g.slots[i].artist_id : i \in DOMAIN g.slots}
        artist_counts == [a \in artists |-> Cardinality({i \in DOMAIN g.slots : g.slots[i].artist_id = a})]
        max_per_artist == IF artists # {}
                          THEN CHOOSE m \in Range(artist_counts) : \A k \in Range(artist_counts) : k <= m
                          ELSE 0
        cap_ok == max_per_artist <= 2
    IN  HardRequirementResult("Artist Cap", cap_ok,
            Msg("Max tracks per artist: {}", <<max_per_artist>>))

TrackDurationGate(g) ==
    LET long_tracks == SelectSeq(g.slots, LAMBDA s : s.duration_ms > 6 * 60 * 1000)
    IN  HardRequirementResult("Track Duration", Len(long_tracks) = 0,
            Msg("Tracks over 6 min: {}", <<Len(long_tracks)>>))

\* The gates g[1..n] up to and including the first that fails.
RECURSIVE UpToFirstFailure(_)
UpToFirstFailure(results) ==
    IF results = <<>> THEN <<>>
    ELSE IF ~Head(results).passed THEN <<Head(results)>>
    ELSE <<Head(results)>> \o UpToFirstFailure(Tail(results))

\* Mutant: the checker returns at the first failing gate.
check_hard_requirements_shortcircuit(g) ==
    UpToFirstFailure(<< DurationGate(g), WarmupGate(g), CooldownGate(g), BookendsGate(g),
                        BackToBackGate(g), ArtistCapGate(g), TrackDurationGate(g) >>)

\* The seven gates, appended to `results` in this order.
check_hard_requirements(g) ==
    << DurationGate(g), WarmupGate(g), CooldownGate(g), BookendsGate(g),
       BackToBackGate(g), ArtistCapGate(g), TrackDurationGate(g) >>

(***************************************************************************)
(* evaluator.py: the six dimension scorers.  Each returns [score, issues]. *)
(***************************************************************************)
\* return min(10.0, max(1.0, score))
Clamp(score) == Min(10000, Max(1000, score))

\* Mutant: the low branch and the critical-fit penalty without their floor, and
\* the result returned unclamped.
score_tempo_fitness_unclamped(g) ==
    LET x == g.avg_tempo_fit
        base == IF x >= 85 THEN 10000
                ELSE IF x >= 75 THEN 8000 + (x - 75) * 200
                ELSE IF x >= 65 THEN 6000 + (x - 65) * 200
                ELSE IF x >= 50 THEN 4000 + (x - 50) * 133
                ELSE x * 80
        very_poor == SelectSeq(g.slots, LAMBDA s : s.tempo_fit < 35)
    IN  [score |-> base - Len(very_poor) * 500, issues |-> <<>>]

\* Mutant: the segment from 0.50 to 0.65 rises by 20 per unit, as the two above it.
score_tempo_fitness_steep(g) ==
    LET x == g.avg_tempo_fit
        base == IF x >= 85 THEN 10000
                ELSE IF x >= 75 THEN 8000 + (x - 75) * 200
                ELSE IF x >= 65 THEN 6000 + (x - 65) * 200
                ELSE IF x >= 50 THEN 4000 + (x - 50) * 200
                ELSE Max(1000, x * 80)
        poor_fits == SelectSeq(g.slots, LAMBDA s : s.tempo_fit < 50)
        very_poor == SelectSeq(g.slots, LAMBDA s : s.tempo_fit < 35)
        score == IF Len(very_poor) > 0 THEN Max(1000, base - Len(very_poor) * 500) ELSE base
        issues == (IF Len(poor_fits) > 0
                   THEN <<Msg("{} tracks with tempoFit < 0.50", <<Len(poor_fits)>>)>> ELSE <<>>)
               \o (IF Len(very_poor) > 0
                   THEN <<Msg("{} tracks with tempoFit < 0.35 (critical)", <<Len(very_poor)>>)>> ELSE <<>>)
    IN  [score |-> Clamp(score), issues |-> issues]

score_tempo_fitness(g) ==
    LET x == g.avg_tempo_fit
        base == IF x >= 85 THEN 10000
                ELSE IF x >= 75 THEN 8000 + (x - 75) * 200
                ELSE IF x >= 65 THEN 6000 + (x - 65) * 200
                ELSE IF x >= 50 THEN 4000 + (x - 50) * 133
                ELSE Max(1000, x * 80)
        poor_fits == SelectSeq(g.slots, LAMBDA s : s.tempo_fit < 50)
        very_poor == SelectSeq(g.slots, LAMBDA s : s.tempo_fit < 35)
        score == IF Len(very_poor) > 0 THEN Max(1000, base - Len(very_poor) * 500) ELSE base
        issues == (IF Len(poor_fits) > 0
                   THEN <<Msg("{} tracks with tempoFit < 0.50", <<Len(poor_fits)>>)>> ELSE <<>>)
               \o (IF Len(very_poor) > 0
                   THEN <<Msg("{} tracks with tempoFit < 0.35 (critical)", <<Len(very_poor)>>)>> ELSE <<>>)
    IN  [score |-> Clamp(score), issues |-> issues]

\* The energies of a segment that are not None.
SegmentEnergies(g, seg) ==
    LET in_seg == SelectSeq(g.slots, LAMBDA s : s.segment = seg /\ s.energy # <<>>)
    IN  [i \in DOMAIN in_seg |-> in_seg[i].energy[1]]

score_energy_arc(g) ==
    LET main == SelectSeq(g.slots, LAMBDA s : s.segment = "main")
        warmup_energies == SegmentEnergies(g, "warmup")
        cooldown_energies == SegmentEnergies(g, "cooldown")
        nw == Len(warmup_energies)
        nc == Len(cooldown_energies)
        \* avg > 0.7  <=>  sum > 0.7 * len
        warm_hot  == nw > 0 /\ SeqSum(warmup_energies) > 70 * nw
        warm_calm == nw > 0 /\ ~warm_hot /\ SeqSum(warmup_energies) < 60 * nw
        cool_hot  == nc > 0 /\ SeqSum(cooldown_energies) > 65 * nc
        cool_calm == nc > 0 /\ ~cool_hot /\ SeqSum(cooldown_energies) < 55 * nc
        main_efforts == [i \in DOMAIN main |-> main[i].effort]
        unique_efforts == Cardinality(Range(main_efforts))
        no_variety == Len(main) > 0 /\ unique_efforts = 1 /\ g.template \notin {"light", "tempo"}
        alternations == Cardinality({i \in 2..Len(main_efforts) : main_efforts[i] # main_efforts[i-1]})
        \* alternations < len(main_efforts) * 0.5
        no_alternation == Len(main) > 0 /\ g.template = "hiit" /\ 2 * alternations < Len(main_efforts)
        score == 7000
                 + (IF warm_hot THEN -1500 ELSE IF warm_calm THEN 500 ELSE 0)
                 + (IF cool_hot THEN -1500 ELSE IF cool_calm THEN 500 ELSE 0)
                 + (IF no_variety THEN -1000 ELSE 0)
                 + (IF no_alternation THEN -1500 ELSE 0)
        issues == (IF warm_hot
                   THEN <<Msg("Warmup too intense (avg energy: {})", <<RoundDiv(SeqSum(warmup_energies), nw)>>)>>
                   ELSE <<>>)
               \o (IF cool_hot
                   THEN <<Msg("Cooldown doesn't cool down (avg energy: {})", <<RoundDiv(SeqSum(cooldown_energies), nc)>>)>>
                   ELSE <<>>)
               \o (IF no_variety THEN <<Msg("Main section lacks effort variety", <<>>)>> ELSE <<>>)
               \o (IF no_alternation THEN <<Msg("HIIT doesn't alternate enough", <<>>)>> ELSE <<>>)
    IN  IF Len(g.slots) = 0
        THEN [score |-> 5000, issues |-> <<Msg("No slots to evaluate", <<>>)>>]
        ELSE [score |-> Clamp(score), issues |-> issues]

\* The issue, if any, that the effort/energy mismatch check emits for one slot.
SlotMismatch(s) ==
    IF s.effort \in {"hard", "max"}
    THEN IF Truthy(s.energy) /\ s.energy[1] < 50
         THEN <<Msg("Track {}: Hard slot but low energy ({})", <<s.index, s.energy[1]>>)>>
         ELSE <<>>
    ELSE IF s.effort = "easy"
    THEN IF Truthy(s.energy) /\ s.energy[1] > 75
         THEN <<Msg("Track {}: Easy slot but high energy ({})", <<s.index, s.energy[1]>>)>>
         ELSE <<>>
    ELSE <<>>

RECURSIVE SlotMismatches(_)
SlotMismatches(slots) ==
    IF slots = <<>> THEN <<>> ELSE SlotMismatch(Head(slots)) \o SlotMismatches(Tail(slots))

score_slot_fitness(g) ==
    LET x == g.avg_slot_fit
        score == IF x >= 85 THEN 10000
                 ELSE IF x >= 75 THEN 8000 + (x - 75) * 200
                 ELSE IF x >= 65 THEN 6000 + (x - 65) * 200
                 ELSE IF x >= 50 THEN 4000 + (x - 50) * 133
                 ELSE Max(1000, x * 80)
    IN  [score |-> Clamp(score), issues |-> SlotMismatches(g.slots)]

score_variety(g) ==
    LET r == g.rediscovery_pct
        n == Len(g.slots)
        redisc_low == ~(r >= 45 /\ r <= 55) /\ ~(r >= 35) /\ r < 25
        redisc == IF r >= 45 /\ r <= 55 THEN 2000
                  ELSE IF r >= 35 THEN 1000
                  ELSE IF r < 25 THEN -1500 ELSE 0
        \* artist_ratio = unique_artists / len(slots); >= 0.9, < 0.7
        ratio_hi == n > 0 /\ 10 * g.unique_artists >= 9 * n
        ratio_lo == n > 0 /\ ~ratio_hi /\ 10 * g.unique_artists < 7 * n
        likes == Count(g.sources, "likes")
        \* likes_pct = count("likes") / len(sources) if sources else 0; < 0.3
        likes_lo == n > 0 /\ (IF Len(g.sources) > 0 THEN 10 * likes < 3 * Len(g.sources) ELSE TRUE)
        likes_pct == IF Len(g.sources) > 0 THEN RoundDiv(100 * likes, Len(g.sources)) ELSE 0
        score == 7000 + redisc
                 + (IF ratio_hi THEN 1000 ELSE IF ratio_lo THEN -1000 ELSE 0)
                 + (IF likes_lo THEN -500 ELSE 0)
        issues == (IF redisc_low THEN <<Msg("Low rediscovery rate ({}%)", <<r>>)>> ELSE <<>>)
               \o (IF ratio_lo
                   THEN <<Msg("Low artist variety ({} unique in {} tracks)", <<g.unique_artists, n>>)>>
                   ELSE <<>>)
               \o (IF likes_lo THEN <<Msg("Low likes usage ({}%)", <<likes_pct>>)>> ELSE <<>>)
    IN  [score |-> Clamp(score), issues |-> issues]

\* Pair (slots[j-1], slots[j]): a tempo jump is counted when both tempos are truthy.
TempoJump(slots, j) ==
    Truthy(slots[j-1].tempo) /\ Truthy(slots[j].tempo)
    /\ Abs(slots[j-1].tempo[1] - slots[j].tempo[1]) > 2000

EnergyJump(slots, j) ==
    Truthy(slots[j-1].energy) /\ Truthy(slots[j].energy)
    /\ Abs(slots[j-1].energy[1] - slots[j].energy[1]) > 30

\* The "Large tempo jump" issues of pairs j..n, in pair order (Python's i is j-1).
RECURSIVE TempoJumpIssues(_, _)
TempoJumpIssues(slots, j) ==
    IF j > Len(slots) THEN <<>>
    ELSE (IF TempoJump(slots, j) /\ Abs(slots[j-1].tempo[1] - slots[j].tempo[1]) > 3000
          THEN <<Msg("Large tempo jump between tracks {} and {}: {} BPM",
                     <<j - 2, j - 1, RoundDiv(Abs(slots[j-1].tempo[1] - slots[j].tempo[1]), 100)>>)>>
          ELSE <<>>)
         \o TempoJumpIssues(slots, j + 1)

score_flow(g) ==
    LET slots == g.slots
        big_jumps == Cardinality({j \in 2..Len(slots) : TempoJump(slots, j)})
                     + Cardinality({j \in 2..Len(slots) : EnergyJump(slots, j)})
        \* penalty = min(3.0, big_jumps * 0.5)
        score == IF big_jumps > 0 THEN 7000 - Min(3000, big_jumps * 500) ELSE 7000 + 2000
        issues == TempoJumpIssues(slots, 2)
               \o (IF big_jumps > 3 THEN <<Msg("{} jarring transitions", <<big_jumps>>)>> ELSE <<>>)
    IN  IF Len(slots) < 2
        THEN [score |-> 5000, issues |-> <<Msg("Not enough tracks to evaluate flow", <<>>)>>]
        ELSE [score |-> Clamp(score), issues |-> issues]

\* Mutant: zero-affinity slots are penalised whichever filter was requested.
score_filter_adherence_anyfilter(g) ==
    LET a == g.avg_genre_affinity
        base == IF a >= 80 THEN 10000
                ELSE IF a >= 60 THEN 8000 + (a - 60) * 100
                ELSE IF a >= 40 THEN 6000 + (a - 40) * 100
                ELSE Max(1000, a * 150)
        zero_affinity == SelectSeq(g.slots, LAMBDA s : s.genre_affinity <= 0)
        penalised == Len(zero_affinity) > 0
        score == IF penalised THEN Max(1000, base - Len(zero_affinity) * 500) ELSE base
    IN  IF Len(g.genres) = 0 /\ Len(g.decades) = 0
        THEN [score |-> 10000, issues |-> <<>>]
        ELSE [score |-> Clamp(score), issues |-> <<>>]

score_filter_adherence(g) ==
    LET a == g.avg_genre_affinity
        base == IF a >= 80 THEN 10000
                ELSE IF a >= 60 THEN 8000 + (a - 60) * 100
                ELSE IF a >= 40 THEN 6000 + (a - 40) * 100
                ELSE Max(1000, a * 150)
        zero_affinity == SelectSeq(g.slots, LAMBDA s : s.genre_affinity <= 0)
        penalised == Len(zero_affinity) > 0 /\ Len(g.genres) > 0
        score == IF penalised THEN Max(1000, base - Len(zero_affinity) * 500) ELSE base
        issues == (IF a < 40 THEN <<Msg("Low genre filter adherence ({})", <<a>>)>> ELSE <<>>)
               \o (IF penalised THEN <<Msg("{} tracks with no genre match", <<Len(zero_affinity)>>)>> ELSE <<>>)
    IN  IF Len(g.genres) = 0 /\ Len(g.decades) = 0
        THEN [score |-> 10000, issues |-> <<>>]
        ELSE [score |-> Clamp(score), issues |-> issues]

\* ObjectiveEvaluator._score_dimensions: the six DimensionScore records, in order.
score_dimensions(g) ==
    LET t == score_tempo_fitness(g)
        a == score_energy_arc(g)
        s == score_slot_fitness(g)
        v == score_variety(g)
        f == score_flow(g)
        d == score_filter_adherence(g)
    IN  << DimensionScore("Tempo Fitness", t.score, DIMENSION_WEIGHTS.tempo_fitness, t.issues),
           DimensionScore("Energy Arc", a.score, DIMENSION_WEIGHTS.energy_arc, a.issues),
           DimensionScore("Slot Fitness", s.score, DIMENSION_WEIGHTS.slot_fitness, s.issues),
           DimensionScore("Variety & Freshness", v.score, DIMENSION_WEIGHTS.variety, v.issues),
           DimensionScore("Flow & Transitions", f.score, DIMENSION_WEIGHTS.flow, f.issues),
           DimensionScore("Filter Adherence", d.score, DIMENSION_WEIGHTS.filter_adherence, d.issues) >>

\* all(r.passed for r in hard_requirements)
AllPassed(results) == \A i \in DOMAIN results : results[i].passed

\* sum(d.score * d.weight for d in dimension_scores)
RECURSIVE WeightedSum(_)
WeightedSum(dims) ==
    IF dims = <<>> THEN 0 ELSE Head(dims).score * Head(dims).weight + WeightedSum(Tail(dims))

\* ObjectiveEvaluator.evaluate: the EvaluationResult of a generation.
evaluate(g) ==
    LET hard_requirements == check_hard_requirements(g)
        dimension_scores == score_dimensions(g)
    IN  [generation |-> g,
         hard_requirements |-> hard_requirements,
         all_hard_requirements_passed |-> AllPassed(hard_requirements),
         dimension_scores |-> dimension_scores,
         overall_score |-> WeightedSum(dimension_scores),
         subjective_notes |-> "",
         subjective_issues |-> <<>>,
         subjective_suggestions |-> <<>>]

(***************************************************************************)
(* Inputs of the evaluator: GenerationResult records as the structured     *)
(* path (runner.py, CLIRunner._parse_generation_result) builds them.  Each *)
(* family varies the fields one group of checks reads and leaves the rest  *)
(* at fixed values.                                                        *)
(***************************************************************************)
\* A slot whose fields trip no check: easy, main, 120 BPM, energy 0.50.
PlainSlot(i) ==
    TrackSlot(i, <<"trk", i>>, <<"art", i>>, "name", "easy", "main", <<12000>>, <<50>>, 200000, 90, 90)

\* A generation of the structured path around the given slots.
GenOf(template, slots) ==
    [GenerationResult(template, 30) EXCEPT
        !.slots = slots,
        !.track_ids = [i \in DOMAIN slots |-> slots[i].track_id],
        !.sources = [i \in DOMAIN slots |-> "likes"],
        !.total_seconds = 1800,
        !.warmup_seconds = 300, !.warmup_target = 300,
        !.cooldown_seconds = 300, !.cooldown_target = 300,
        !.avg_tempo_fit = 90, !.avg_slot_fit = 90, !.avg_genre_affinity = 90,
        !.rediscovery_pct = 50,
        !.unique_artists = Cardinality({slots[i].artist_id : i \in DOMAIN slots})]

\* Hard requirements: durations around the tolerances, efforts, repeated
\* artists, over-long tracks.
GateChoices == [effort : {"easy", "hard"}, artist : {1, 2}, dur : {200000, 360001}]

GateSlots(ch) ==
    [i \in DOMAIN ch |->
        [PlainSlot(i - 1) EXCEPT !.effort = ch[i].effort,
                                 !.artist_id = <<"art", ch[i].artist>>,
                                 !.duration_ms = ch[i].dur]]

GateGen(ts, seg, ch) ==
    [GenOf("tempo", GateSlots(ch)) EXCEPT
        !.total_seconds = ts, !.warmup_seconds = seg[1], !.cooldown_seconds = seg[2]]

GateInit ==
    \E ts \in {1679, 1680, 1800, 1920, 1921},
       seg \in {<<300, 300>>, <<361, 300>>, <<300, 239>>},
       ch \in SeqsUpTo(GateChoices, MaxSlots) : gen = GateGen(ts, seg, ch)

\* Metric values around every breakpoint of the piecewise scales, and beyond 1.0.
FitLevels == {0, 40, 50, 64, 65, 75, 85, 150}

TempoChoices == {20, 40, 90}

TempoGen(x, ch) ==
    [GenOf("tempo", [i \in DOMAIN ch |-> [PlainSlot(i - 1) EXCEPT !.tempo_fit = ch[i]]])
        EXCEPT !.avg_tempo_fit = x]

TempoInit == \E x \in FitLevels, ch \in SeqsUpTo(TempoChoices, MaxSlots) : gen = TempoGen(x, ch)

SlotFitChoices == [effort : {"easy", "hard"}, energy : {<<>>, <<40>>, <<80>>}]

SlotFitGen(x, ch) ==
    [GenOf("tempo", [i \in DOMAIN ch |->
            [PlainSlot(i - 1) EXCEPT !.effort = ch[i].effort, !.energy = ch[i].energy]])
        EXCEPT !.avg_slot_fit = x]

SlotFitInit == \E x \in FitLevels, ch \in SeqsUpTo(SlotFitChoices, MaxSlots) : gen = SlotFitGen(x, ch)

FilterChoices ==
    {<<<<>>, <<>>>>, <<<<"Rock">>, <<>>>>, <<<<>>, <<"1990s">>>>, <<<<"Rock">>, <<"1990s">>>>}

FilterGen(a, f, ch) ==
    [GenOf("tempo", [i \in DOMAIN ch |-> [PlainSlot(i - 1) EXCEPT !.genre_affinity = ch[i]]])
        EXCEPT !.avg_genre_affinity = a, !.genres = f[1], !.decades = f[2]]

FilterInit ==
    \E a \in {0, 30, 40, 70, 80, 150}, f \in FilterChoices, ch \in SeqsUpTo({0, 90}, MaxSlots) :
        gen = FilterGen(a, f, ch)

ArcChoices ==
    [segment : {"warmup", "main", "cooldown"}, effort : {"easy", "hard"}, energy : {<<50>>, <<80>>}]
    \cup {[segment |-> "warmup", effort |-> "easy", energy |-> <<>>]}

ArcGen(t, ch) ==
    GenOf(t, [i \in DOMAIN ch |->
        [PlainSlot(i - 1) EXCEPT !.segment = ch[i].segment, !.effort = ch[i].effort,
                                 !.energy = ch[i].energy]])

ArcInit ==
    \E t \in {"tempo", "hiit", "intervals"}, ch \in SeqsUpTo(ArcChoices, MaxSlots) : gen = ArcGen(t, ch)

VarietyGen(r, u, src, n) ==
    [GenOf("tempo", [i \in 1..n |-> PlainSlot(i - 1)]) EXCEPT
        !.rediscovery_pct = r, !.unique_artists = u,
        !.sources = IF src = "none" THEN <<>> ELSE [i \in 1..n |-> src]]

VarietyInit ==
    \E r \in {0, 25, 35, 45, 55, 60, 150}, u \in 0..MaxSlots,
       src \in {"none", "likes", "recs"}, n \in 0..MaxSlots : gen = VarietyGen(r, u, src, n)

FlowChoices == [tempo : {<<>>, <<0>>, <<12000>>, <<14500>>, <<15500>>}, energy : {<<>>, <<20>>, <<60>>}]

FlowGen(ch) ==
    GenOf("tempo", [i \in DOMAIN ch |->
        [PlainSlot(i - 1) EXCEPT !.tempo = ch[i].tempo, !.energy = ch[i].energy]])

FlowInit == \E ch \in SeqsUpTo(FlowChoices, MaxSlots) : gen = FlowGen(ch)

\* The parts of the state a specification does not use, as they are before
\* any evaluation, modification or watching took place.
OtherParts ==
    /\ writes = <<>>
    /\ file = <<>>
    /\ change = NoValue
    /\ returned = NoValue
    /\ commits = <<>>
    /\ log = <<>>
    /\ last_size = 0
    /\ current_size = 0

(***************************************************************************)
(* Specification Spec: a generation is handed to ObjectiveEvaluator.       *)
(***************************************************************************)
Init ==
    /\ pc = "input"
    /\ (GateInit \/ TempoInit \/ SlotFitInit \/ FilterInit \/ ArcInit \/ VarietyInit \/ FlowInit)
    /\ ev = NoValue
    /\ text = <<>>
    /\ parsed = NoValue
    /\ batch = <<>>
    /\ report = NoValue
    /\ raised = ""
    /\ saved = {}
    /\ save_report = TRUE
    /\ judge = NoValue
    /\ outcomes = <<>>
    /\ buffer = <<>>
    /\ delivered = <<>>
    /\ chunks = 0
    /\ OtherParts

\* ObjectiveEvaluator.evaluate(generation)
Evaluate ==
    /\ pc = "input"
    /\ ev' = evaluate(gen)
    /\ pc' = "evaluated"
    /\ UNCHANGED <<gen, text, parsed, batch, report, raised, saved, save_report, judge, outcomes, buffer, delivered, chunks, writes, file, change, returned, commits, log, last_size, current_size>>

Next == Evaluate

Spec == Init /\ [][Next]_vars

(***************************************************************************)
(* Claims about the evaluator, checked under Spec.                         *)
(***************************************************************************)
Evaluated == pc = "evaluated"

\* C1: every one of the six dimension scores of an evaluated generation lies
\* in [1.0, 10.0], whatever the metrics (0.0, above 1.0) and the slots
\* (none, low-fit, zero-affinity).
C1_ScoresInRange ==
    Evaluated =>
        /\ Len(ev.dimension_scores) = 6
        /\ \A i \in DOMAIN ev.dimension_scores :
              /\ ev.dimension_scores[i].score >= 1000
              /\ ev.dimension_scores[i].score <= 10000

\* C1 witness: a generation with avg_tempo_fit 0.0 and critically low-fit
\* slots is scored at the floor, 1.0.
C1_Witness ==
    /\ Evaluated
    /\ gen.avg_tempo_fit = 0
    /\ \E i \in DOMAIN gen.slots : gen.slots[i].tempo_fit < 35
    /\ ev.dimension_scores[1].score = 1000

\* C2: an evaluation carries exactly six dimension scores, with weights
\* 0.25, 0.25, 0.20, 0.15, 0.10, 0.05 (summing to 1.0), and its overall score
\* is the sum of score x weight over them.
C2_WeightedOverall ==
    Evaluated =>
        LET d == ev.dimension_scores
        IN  /\ Len(d) = 6
            /\ <<d[1].weight, d[2].weight, d[3].weight, d[4].weight, d[5].weight, d[6].weight>>
                   = <<25, 25, 20, 15, 10, 5>>
            /\ d[1].weight + d[2].weight + d[3].weight + d[4].weight + d[5].weight + d[6].weight = 100
            /\ ev.overall_score = 25 * d[1].score + 25 * d[2].score + 20 * d[3].score
                                  + 15 * d[4].score + 10 * d[5].score + 5 * d[6].score

\* C2 witness: an evaluation whose six scores are not all equal.
C2_Witness ==
    /\ Evaluated
    /\ ev.dimension_scores[1].score # ev.dimension_scores[4].score
    /\ ev.dimension_scores[2].score # ev.dimension_scores[5].score
    /\ ev.overall_score > 0

\* C3: the Duration Compliance gate passes exactly when the actual duration is
\* within 120 s of run_minutes * 60, on either side: target +/- 120 passes,
\* target +/- 121 fails.
C3_DurationSymmetric ==
    Evaluated =>
        LET target == gen.run_minutes * 60
            passed == ev.hard_requirements[1].passed
        IN  /\ ev.hard_requirements[1].name = "Duration Compliance"
            /\ passed <=> (gen.total_seconds >= target - 120 /\ gen.total_seconds <= target + 120)
            /\ gen.total_seconds \in {target - 120, target + 120} => passed
            /\ gen.total_seconds \in {target - 121, target + 121} => ~passed

\* C3 witness: an undershoot of exactly 120 s passes the gate.
C3_Witness ==
    /\ Evaluated
    /\ gen.total_seconds = gen.run_minutes * 60 - 120
    /\ ev.hard_requirements[1].passed

\* The gate names, in the order the checker reports them.
GateNames ==
    << "Duration Compliance", "Warmup Duration", "Cooldown Duration", "Effort Bookends",
       "No Back-to-Back Artist", "Artist Cap", "Track Duration" >>

\* C4: all seven gates are reported, in the same order, whatever the other
\* gates decide, and all_hard_requirements_passed is true exactly when every
\* reported gate passed.
C4_AllGatesReported ==
    Evaluated =>
        /\ [i \in DOMAIN ev.hard_requirements |-> ev.hard_requirements[i].name] = GateNames
        /\ ev.all_hard_requirements_passed
              <=> ~(\E i \in 1..7 : ~ev.hard_requirements[i].passed)

\* C4 witness: the first gate fails and the last gate is reported failing too.
C4_Witness ==
    /\ Evaluated
    /\ ~ev.hard_requirements[1].passed
    /\ Len(ev.hard_requirements) = 7
    /\ ~ev.hard_requirements[7].passed
    /\ ev.hard_requirements[6].passed
    /\ ~ev.all_hard_requirements_passed

\* C5: with an empty slot list the Bookends gate fails, its details read
\* "N/A" for the first and the last item, and the evaluation does not pass
\* its hard requirements.
C5_EmptyBookends ==
    (Evaluated /\ gen.slots = <<>>) =>
        /\ ev.hard_requirements[4].name = "Effort Bookends"
        /\ ev.hard_requirements[4].passed = FALSE
        /\ ev.hard_requirements[4].details.args = <<"N/A", "N/A">>
        /\ ev.all_hard_requirements_passed = FALSE

\* C5 witness: an empty generation whose other six gates all pass.
C5_Witness ==
    /\ Evaluated
    /\ gen.slots = <<>>
    /\ \A i \in (1..7) \ {4} : ev.hard_requirements[i].passed
    /\ ~ev.hard_requirements[4].passed

(***************************************************************************)
(* console_watcher.py: log text.                                           *)
(*                                                                         *)
(* A text is the sequence of its lines (log_text.strip().split("\n")); no  *)
(* line carries trailing white space.  A line is a record: `kind` names    *)
(* the literal skeleton it is written on ("LocalGen config — template:.."  *)
(* and so on), the other fields hold what stands at the places the         *)
(* patterns capture.  A numeric field is the sequence of its characters,   *)
(* so that \d+, [\d.]+, int() and float() are computed on the characters.  *)
(* A word field (template, segment, effort) is a string.  A filter list    *)
(* is the sequence of its symbols, where a name is one symbol and ","      *)
(* and " " are symbols of their own.                                       *)
(***************************************************************************)
DigitSeq == <<"0", "1", "2", "3", "4", "5", "6", "7", "8", "9">>

Digits == Range(DigitSeq)

DigitVal(c) == (CHOOSE i \in DOMAIN DigitSeq : DigitSeq[i] = c) - 1

\* \d+
IsDigits(cs) == Len(cs) > 0 /\ \A i \in DOMAIN cs : cs[i] \in Digits

\* [\d.]+
IsNumChars(cs) == Len(cs) > 0 /\ \A i \in DOMAIN cs : cs[i] \in Digits \cup {"."}

\* The longest prefix of cs matching [\d.]* (a greedy group with nothing required after it).
RECURSIVE NumPrefix(_)
NumPrefix(cs) ==
    IF cs = <<>> \/ Head(cs) \notin Digits \cup {"."} THEN <<>>
    ELSE <<Head(cs)>> \o NumPrefix(Tail(cs))

\* Tokens that hold a character outside \w; every other token matches \w+.
NonWordTokens == {"", "hi-it", "warm up"}

\* \w+
IsWord(w) == w \notin NonWordTokens

\* int(cs) for cs matching \d+
RECURSIVE ParseInt(_)
ParseInt(cs) ==
    IF cs = <<>> THEN 0
    ELSE ParseInt(SubSeq(cs, 1, Len(cs) - 1)) * 10 + DigitVal(cs[Len(cs)])

\* float(cs) raises ValueError unless cs has at most one "." and a digit.
FloatOk(cs) == IsNumChars(cs) /\ Count(cs, ".") <= 1 /\ (\E i \in DOMAIN cs : cs[i] \in Digits)

\* float(cs) in hundredths (exact for up to two fractional digits).
ParseFloat(cs) ==
    LET dot == IF "." \in Range(cs) THEN CHOOSE i \in DOMAIN cs : cs[i] = "." ELSE Len(cs) + 1
        frac == SubSeq(cs, dot + 1, Len(cs)) \o <<"0", "0">>
    IN  ParseInt(SubSeq(cs, 1, dot - 1)) * 100 + ParseInt(SubSeq(frac, 1, 2))

\* str.split(sep)
RECURSIVE Split(_, _)
Split(cs, sep) ==
    IF sep \notin Range(cs) THEN <<cs>>
    ELSE LET i == CHOOSE k \in DOMAIN cs : cs[k] = sep /\ \A m \in 1..(k - 1) : cs[m] # sep
         IN  <<SubSeq(cs, 1, i - 1)>> \o Split(SubSeq(cs, i + 1, Len(cs)), sep)

\* str.strip()
RECURSIVE Strip(_)
Strip(cs) ==
    IF cs = <<>> THEN <<>>
    ELSE IF Head(cs) = " " THEN Strip(Tail(cs))
    ELSE IF cs[Len(cs)] = " " THEN Strip(SubSeq(cs, 1, Len(cs) - 1))
    ELSE cs

\* [g.strip() for g in s.split(",") if g.strip() and g.strip() != "none"]
FilterList(s) ==
    LET pieces == Split(s, ",")
        stripped == [i \in DOMAIN pieces |-> Strip(pieces[i])]
    IN  SelectSeq(stripped, LAMBDA g : g # <<>> /\ g # <<"none">>)

(***************************************************************************)
(* LogParser.PATTERNS: whether a line matches, and the groups it captures. *)
(***************************************************************************)
\* PATTERNS["config"].search(line)
MatchConfig(l) ==
    /\ l.kind = "config"
    /\ IsWord(l.template)
    /\ IsDigits(l.run) /\ IsDigits(l.wu) /\ IsDigits(l.main) /\ IsDigits(l.cd)
    /\ l.seg_key \in {"main", "core"}
    /\ "]" \notin Range(l.genres) /\ "]" \notin Range(l.decades)

\* dur=(\d+:\d+)
IsDur(cs) ==
    LET parts == Split(cs, ":")
    IN  Len(parts) = 2 /\ IsDigits(parts[1]) /\ IsDigits(parts[2])

\* PATTERNS["slot"].search(line); the last group, slotFit, is a greedy prefix.
MatchSlot(l) ==
    /\ l.kind = "slot"
    /\ IsDigits(l.index) /\ IsWord(l.segment) /\ IsWord(l.effort)
    /\ IsDigits(l.tol) /\ IsNumChars(l.tgt)
    /\ IsNumChars(l.tempo) /\ IsNumChars(l.energy) /\ IsNumChars(l.dance)
    /\ IsDur(l.dur)
    /\ IsNumChars(l.tempoFit) /\ IsNumChars(l.effortIdx)
    /\ NumPrefix(l.slotFit) # <<>>

\* PATTERNS["metrics"].search(line).  After "time:<n>s" the pattern needs a
\* space, hence a further token; each optional group but the last needs a
\* space after it, hence a further token after its own.
MatchMetrics(l) ==
    /\ l.kind = "metrics"
    /\ IsDigits(l.tracks) /\ IsDigits(l.time)
    /\ Len(l.rest) >= 1

\* The groups 3, 4, 5 of a matching metrics line: <<>> for None, else <<chars>>.
MetricsGroups(l) ==
    LET rest == l.rest
        n == Len(rest)
        has3 == /\ rest[1].key = "rediscovery"
                /\ Len(rest[1].val) >= 2
                /\ rest[1].val[Len(rest[1].val)] = "%"
                /\ IsDigits(SubSeq(rest[1].val, 1, Len(rest[1].val) - 1))
                /\ n > 1
        p2 == IF has3 THEN 2 ELSE 1
        has4 == rest[p2].key = "tempoFit" /\ IsNumChars(rest[p2].val) /\ n > p2
        p3 == IF has4 THEN p2 + 1 ELSE p2
        has5 == rest[p3].key = "slotFit" /\ NumPrefix(rest[p3].val) # <<>>
    IN  [rediscovery |-> IF has3 THEN <<SubSeq(rest[1].val, 1, Len(rest[1].val) - 1)>> ELSE <<>>,
         tempoFit |-> IF has4 THEN <<rest[p2].val>> ELSE <<>>,
         slotFit |-> IF has5 THEN <<NumPrefix(rest[p3].val)>> ELSE <<>>]

\* PATTERNS["seg_check"].search(line)
MatchSegCheck(l) ==
    /\ l.kind = "seg_check"
    /\ l.wu \in {"PASS", "FAIL"} /\ l.cd \in {"PASS", "FAIL"}

(***************************************************************************)
(* LogParser.parse                                                         *)
(***************************************************************************)
\* Index of the first TRUE of a sequence of booleans, 0 when there is none:
\* the loop "for line in lines: m = pattern.search(line); if m: break".
FirstTrue(flags) ==
    IF \E i \in DOMAIN flags : flags[i]
    THEN CHOOSE i \in DOMAIN flags : flags[i] /\ \A j \in 1..(i - 1) : ~flags[j]
    ELSE 0

\* The float() conversions of a matched slot line all succeed.
SlotFloatsOk(l) ==
    /\ FloatOk(l.tgt) /\ FloatOk(l.tempo) /\ FloatOk(l.energy) /\ FloatOk(l.dance)
    /\ FloatOk(l.tempoFit) /\ FloatOk(l.effortIdx) /\ FloatOk(NumPrefix(l.slotFit))

\* The dict appended to `slots` for a matched slot line.
SlotDict(l) ==
    [index |-> ParseInt(l.index), segment |-> l.segment, effort |-> l.effort,
     tolerance |-> ParseInt(l.tol), target_effort |-> ParseFloat(l.tgt),
     artist |-> l.artist, track |-> l.track,
     tempo |-> ParseFloat(l.tempo), energy |-> ParseFloat(l.energy),
     danceability |-> ParseFloat(l.dance), duration |-> l.dur,
     tempo_fit |-> ParseFloat(l.tempoFit), effort_index |-> ParseFloat(l.effortIdx),
     slot_fit |-> ParseFloat(NumPrefix(l.slotFit))]

\* The issues the seg_check lines contribute, in line order.
RECURSIVE SegCheckIssues(_)
SegCheckIssues(lines) ==
    IF lines = <<>> THEN <<>>
    ELSE (IF MatchSegCheck(Head(lines))
          THEN (IF Head(lines).wu = "FAIL" THEN <<Msg("Warmup duration out of tolerance", <<>>)>> ELSE <<>>)
               \o (IF Head(lines).cd = "FAIL" THEN <<Msg("Cooldown duration out of tolerance", <<>>)>> ELSE <<>>)
          ELSE <<>>)
         \o SegCheckIssues(Tail(lines))

ParseNone == [kind |-> "None"]

ParseRaise(e) == [kind |-> "raise", error |-> e]

\* "Find config line to start": the index of the first config line, 0 when none.
ConfigIndex(lines) == FirstTrue([i \in DOMAIN lines |-> MatchConfig(lines[i])])

\* Mutant: the slot loop leaves at its first match, as the config loop does.
ParseSlots_break(lines) ==
    LET slot_lines == SelectSeq(lines, MatchSlot)
    IN  IF slot_lines = <<>> THEN <<>> ELSE <<SlotDict(slot_lines[1])>>

\* "Parse slots": one dict per matching line, in line order.
ParseSlots(lines) ==
    LET slot_lines == SelectSeq(lines, MatchSlot)
    IN  [i \in DOMAIN slot_lines |-> SlotDict(slot_lines[i])]

\* Some float() of the slot loop or of the metrics groups raises ValueError.
ParseFloatFails(lines) ==
    LET slot_lines == SelectSeq(lines, MatchSlot)
        m == FirstTrue([i \in DOMAIN lines |-> MatchMetrics(lines[i])])
        groups == MetricsGroups(lines[m])
    IN  \/ \E i \in DOMAIN slot_lines : ~SlotFloatsOk(slot_lines[i])
        \/ /\ m # 0
           /\ \/ (groups.tempoFit # <<>> /\ ~FloatOk(groups.tempoFit[1]))
              \/ (groups.slotFit # <<>> /\ ~FloatOk(groups.slotFit[1]))

\* The ParsedGeneration built once a config line was found and every
\* conversion succeeded (lines 148-228).
ParsedGeneration(lines) ==
    LET config_match == lines[ConfigIndex(lines)]
        m == FirstTrue([i \in DOMAIN lines |-> MatchMetrics(lines[i])])
        groups == MetricsGroups(lines[m])
        slots == ParseSlots(lines)
        total_tracks == IF m # 0 THEN ParseInt(lines[m].tracks) ELSE Len(slots)
        total_seconds == IF m # 0 THEN ParseInt(lines[m].time) ELSE 0
        rediscovery_pct == IF m # 0 /\ groups.rediscovery # <<>> THEN ParseInt(groups.rediscovery[1]) ELSE 0
        avg_tempo_fit == IF m # 0 /\ groups.tempoFit # <<>> THEN ParseFloat(groups.tempoFit[1]) ELSE 0
        avg_slot_fit == IF m # 0 /\ groups.slotFit # <<>> THEN ParseFloat(groups.slotFit[1]) ELSE 0
        issues == SegCheckIssues(lines)
               \o (IF avg_tempo_fit > 0 /\ avg_tempo_fit < 65
                   THEN <<Msg("Low average tempo fit: {}", <<avg_tempo_fit>>)>> ELSE <<>>)
               \o (IF avg_slot_fit > 0 /\ avg_slot_fit < 70
                   THEN <<Msg("Low average slot fit: {}", <<avg_slot_fit>>)>> ELSE <<>>)
    IN  [kind |-> "ParsedGeneration",
         template |-> config_match.template,
         run_minutes |-> ParseInt(config_match.run),
         genres |-> FilterList(config_match.genres),
         decades |-> FilterList(config_match.decades),
         slots |-> slots,
         total_tracks |-> total_tracks,
         total_seconds |-> total_seconds,
         avg_tempo_fit |-> avg_tempo_fit,
         avg_slot_fit |-> avg_slot_fit,
         rediscovery_pct |-> rediscovery_pct,
         warmup_seconds |-> ParseInt(config_match.wu) * 60,
         main_seconds |-> ParseInt(config_match.main) * 60,
         cooldown_seconds |-> ParseInt(config_match.cd) * 60,
         debug_lines |-> SelectSeq(lines, LAMBDA l : l.kind \in {"config", "metrics", "slot"}),
         issues |-> issues]

\* Mutant: the slot and metrics conversions run before the config line is looked for.
parse_convert_first(lines) ==
    IF ParseFloatFails(lines) THEN ParseRaise("ValueError")
    ELSE IF ConfigIndex(lines) = 0 THEN ParseNone
    ELSE ParsedGeneration(lines)

\* LogParser.parse(log_text): None when no line matches the config pattern;
\* else a ValueError raised by a float() conversion, or the ParsedGeneration.
parse(lines) ==
    IF ConfigIndex(lines) = 0 THEN ParseNone
    ELSE IF ParseFloatFails(lines) THEN ParseRaise("ValueError")
    ELSE ParsedGeneration(lines)

\* LogParser._parse_duration("m:ss") in seconds; 0 unless exactly one ":".
parse_duration(dur_str) ==
    LET parts == Split(dur_str, ":")
    IN  IF Len(parts) = 2 THEN ParseInt(parts[1]) * 60 + ParseInt(parts[2]) ELSE 0

\* Mutant: the artist id is made from the artist name of the log line.
to_generation_result_byname(p) ==
    LET slots == [i \in DOMAIN p.slots |->
                    TrackSlot(p.slots[i].index,
                              <<"parsed_", p.slots[i].index>>,
                              <<"artist_", p.slots[i].artist>>,
                              p.slots[i].artist,
                              p.slots[i].effort,
                              p.slots[i].segment,
                              <<p.slots[i].tempo>>,
                              <<p.slots[i].energy>>,
                              parse_duration(p.slots[i].duration) * 1000,
                              p.slots[i].tempo_fit,
                              0)]
    IN  IF \E i \in DOMAIN p.slots : p.slots[i].effort \notin EffortTier THEN ParseRaise("ValueError")
        ELSE IF p.template \notin Template THEN ParseRaise("ValueError")
        ELSE [GenerationResult(p.template, p.run_minutes) EXCEPT
                !.genres = p.genres,
                !.decades = p.decades,
                !.track_ids = [i \in DOMAIN slots |-> <<"parsed_", i - 1>>],
                !.sources = [i \in DOMAIN slots |-> "likes"],
                !.total_seconds = p.total_seconds,
                !.warmup_seconds = p.warmup_seconds,
                !.cooldown_seconds = p.cooldown_seconds,
                !.warmup_target = p.warmup_seconds,
                !.cooldown_target = p.cooldown_seconds,
                !.slots = slots,
                !.avg_tempo_fit = p.avg_tempo_fit,
                !.avg_slot_fit = p.avg_slot_fit,
                !.rediscovery_pct = p.rediscovery_pct,
                !.unique_artists = Cardinality({p.slots[i].artist : i \in DOMAIN p.slots})]

\* LogParser.to_generation_result(parsed): the GenerationResult, or the
\* ValueError of EffortTier(...) / Template(...) on a value outside the enum.
to_generation_result(p) ==
    LET slots == [i \in DOMAIN p.slots |->
                    TrackSlot(p.slots[i].index,
                              <<"parsed_", p.slots[i].index>>,
                              <<"artist_", p.slots[i].index>>,
                              p.slots[i].artist,
                              p.slots[i].effort,
                              p.slots[i].segment,
                              <<p.slots[i].tempo>>,
                              <<p.slots[i].energy>>,
                              parse_duration(p.slots[i].duration) * 1000,
                              p.slots[i].tempo_fit,
                              0)]
    IN  IF \E i \in DOMAIN p.slots : p.slots[i].effort \notin EffortTier THEN ParseRaise("ValueError")
        ELSE IF p.template \notin Template THEN ParseRaise("ValueError")
        ELSE [GenerationResult(p.template, p.run_minutes) EXCEPT
                !.genres = p.genres,
                !.decades = p.decades,
                !.track_ids = [i \in DOMAIN slots |-> <<"parsed_", i - 1>>],
                !.sources = [i \in DOMAIN slots |-> "likes"],
                !.total_seconds = p.total_seconds,
                !.warmup_seconds = p.warmup_seconds,
                !.cooldown_seconds = p.cooldown_seconds,
                !.warmup_target = p.warmup_seconds,
                !.cooldown_target = p.cooldown_seconds,
                !.slots = slots,
                !.avg_tempo_fit = p.avg_tempo_fit,
                !.avg_slot_fit = p.avg_slot_fit,
                !.rediscovery_pct = p.rediscovery_pct,
                !.unique_artists = Cardinality({p.slots[i].artist : i \in DOMAIN p.slots})]

(***************************************************************************)
(* The log format, as the generator writes it (the examples above each     *)
(* pattern of LogParser.PATTERNS): rendering of values into lines.         *)
(***************************************************************************)
\* str(n) for n >= 0
RECURSIVE FormatInt(_)
FormatInt(n) ==
    IF n < 10 THEN <<DigitSeq[n + 1]>>
    ELSE FormatInt(n \div 10) \o <<DigitSeq[(n % 10) + 1]>>

\* A value in hundredths with two decimals: 90 -> "0.90"
Format2(v) == FormatInt(v \div 100) \o <<".", DigitSeq[((v % 100) \div 10) + 1], DigitSeq[(v % 10) + 1]>>

\* Seconds as m:ss
FormatDur(sec) == FormatInt(sec \div 60) \o <<":", DigitSeq[((sec % 60) \div 10) + 1], DigitSeq[(sec % 10) + 1]>>

\* A list of names as "a,b,c"; an empty list as "" or as the literal "none".
RECURSIVE JoinNames(_)
JoinNames(names) ==
    IF names = <<>> THEN <<>>
    ELSE IF Len(names) = 1 THEN <<names[1]>>
    ELSE <<names[1], ",">> \o JoinNames(Tail(names))

RenderFilter(names, none_literal) ==
    IF names = <<>> /\ none_literal THEN <<"none">> ELSE JoinNames(names)

\* LocalGen config — template:tempo run:30m segmentsPlanned:[wu:7m main:18m cd:5m] filters:...
RenderConfig(c) ==
    [kind |-> "config", template |-> c.template, run |-> FormatInt(c.run_minutes),
     wu |-> FormatInt(c.wu), seg_key |-> "main", main |-> FormatInt(c.main), cd |-> FormatInt(c.cd),
     genres |-> RenderFilter(c.genres, FALSE), decades |-> RenderFilter(c.decades, TRUE)]

\* Slot #0 seg=warmup [easy] tol=15 tgt=0.40 • Artist — Track • tempo=155 energy=0.50 dance=0.60 dur=3:30 • tempoFit=...
RenderSlot(v) ==
    [kind |-> "slot", index |-> FormatInt(v.index), segment |-> v.segment, effort |-> v.effort,
     tol |-> FormatInt(v.tol), tgt |-> Format2(v.tgt), artist |-> v.artist, track |-> v.track,
     tempo |-> FormatInt(v.tempo \div 100), energy |-> Format2(v.energy), dance |-> Format2(v.dance),
     dur |-> FormatDur(v.dur), tempoFit |-> Format2(v.tempo_fit), effortIdx |-> Format2(v.effort_index),
     slotFit |-> Format2(v.slot_fit)]

\* One "key:value" token of a metrics line.
RenderMetricsField(f) ==
    [key |-> f[1],
     val |-> IF f[1] = "rediscovery" THEN FormatInt(f[2]) \o <<"%">> ELSE Format2(f[2])]

\* LocalGen metrics — tracks:12 time:1820s rediscovery:50% tempoFit:0.75 slotFit:0.80
RenderMetrics(m) ==
    [kind |-> "metrics", tracks |-> FormatInt(m.tracks), time |-> FormatInt(m.time),
     rest |-> [i \in DOMAIN m.fields |-> RenderMetricsField(m.fields[i])]]

(***************************************************************************)
(* Log texts handed to the parser: up to MaxLines lines, each drawn from   *)
(* LineTable: rendered config, slot and metrics lines, lines that miss a   *)
(* pattern or break a conversion, a segment-check line and a foreign line. *)
(***************************************************************************)
MaxLines == 3

ConfigValues ==
    << [template |-> "tempo", run_minutes |-> 30, wu |-> 5, main |-> 20, cd |-> 5,
        genres |-> <<>>, decades |-> <<>>],
       [template |-> "hiit", run_minutes |-> 20, wu |-> 3, main |-> 14, cd |-> 3,
        genres |-> <<"Rock", "Pop">>, decades |-> <<>>] >>

SlotValues ==
    << [index |-> 0, segment |-> "warmup", effort |-> "easy", tol |-> 15, tgt |-> 40,
        artist |-> "Artist A", track |-> "Track 1", tempo |-> 15500, energy |-> 50,
        dance |-> 60, dur |-> 210, tempo_fit |-> 90, effort_index |-> 45, slot_fit |-> 90],
       [index |-> 1, segment |-> "main", effort |-> "hard", tol |-> 10, tgt |-> 80,
        artist |-> "Artist A", track |-> "Track 2", tempo |-> 17000, energy |-> 85,
        dance |-> 70, dur |-> 200, tempo_fit |-> 35, effort_index |-> 80, slot_fit |-> 60],
       [index |-> 2, segment |-> "cooldown", effort |-> "easy", tol |-> 15, tgt |-> 30,
        artist |-> "Artist B", track |-> "Track 3", tempo |-> 12000, energy |-> 40,
        dance |-> 50, dur |-> 185, tempo_fit |-> 20, effort_index |-> 30, slot_fit |-> 45] >>

MetricsValues ==
    << [tracks |-> 1, time |-> 1800,
        fields |-> << <<"rediscovery", 50>>, <<"tempoFit", 90>>, <<"slotFit", 90>> >>],
       [tracks |-> 2, time |-> 1750, fields |-> << <<"tempoFit", 90>> >>],
       [tracks |-> 0, time |-> 0, fields |-> <<>>],
       [tracks |-> 2, time |-> 1800, fields |-> << <<"tempoFit", 60>>, <<"slotFit", 65>> >>] >>

RenderedConfigs == [i \in DOMAIN ConfigValues |-> RenderConfig(ConfigValues[i])]

RenderedSlots == [i \in DOMAIN SlotValues |-> RenderSlot(SlotValues[i])]

RenderedMetrics == [i \in DOMAIN MetricsValues |-> RenderMetrics(MetricsValues[i])]

\* Lines no renderer wrote: a run length that is no number, a target with two
\* dots, an effort outside the enumeration, a fractional tolerance.
OddLines ==
    << [RenderedConfigs[1] EXCEPT !.run = <<"3", "x">>],
       [RenderedSlots[1] EXCEPT !.tgt = <<"0", ".", "4", ".", "0">>],
       [RenderedSlots[2] EXCEPT !.effort = "steady"],
       [RenderedSlots[1] EXCEPT !.tol = <<"1", "5", ".", "5">>],
       [kind |-> "seg_check", wu |-> "PASS", cd |-> "FAIL"],
       [kind |-> "other"] >>

LineTable == RenderedConfigs \o RenderedSlots \o RenderedMetrics \o OddLines

\* A longer block, as a log holding two generations gives it: two config
\* lines c1, c2, two metrics lines m1, m2 and two item lines s1, s2, with an
\* item line before the first config line (shape 1) or the first metrics
\* line before it (shape 2).
Block(shape, c1, c2, m1, m2, s1, s2) ==
    IF shape = 1
    THEN <<RenderedSlots[s1], RenderedConfigs[c1], RenderedMetrics[m1],
           RenderedConfigs[c2], RenderedSlots[s2], RenderedMetrics[m2]>>
    ELSE <<RenderedMetrics[m1], RenderedConfigs[c1], RenderedSlots[s1],
           RenderedSlots[s2], RenderedConfigs[c2], RenderedMetrics[m2]>>

(***************************************************************************)
(* Specification SpecParse: LiveAgentTrigger.process_pasted_log, i.e.      *)
(* parse, then _on_generation: to_generation_result and evaluate.          *)
(***************************************************************************)
IsRaise(r) == "error" \in DOMAIN r

InitParse ==
    /\ pc = "text"
    /\ \/ \E idx \in SeqsUpTo(DOMAIN LineTable, MaxLines) : text = [i \in DOMAIN idx |-> LineTable[idx[i]]]
       \/ \E shape \in 1..2, c1, c2 \in DOMAIN RenderedConfigs, m1, m2 \in DOMAIN RenderedMetrics,
             s1, s2 \in DOMAIN RenderedSlots :
              c1 # c2 /\ m1 # m2 /\ text = Block(shape, c1, c2, m1, m2, s1, s2)
    /\ gen = NoValue
    /\ ev = NoValue
    /\ parsed = NoValue
    /\ batch = <<>>
    /\ report = NoValue
    /\ raised = ""
    /\ saved = {}
    /\ save_report = TRUE
    /\ judge = NoValue
    /\ outcomes = <<>>
    /\ buffer = <<>>
    /\ delivered = <<>>
    /\ chunks = 0
    /\ OtherParts

\* parsed = self.parser.parse(log_text)
Parse ==
    /\ pc = "text"
    /\ parsed' = parse(text)
    /\ IF IsRaise(parsed')
       THEN raised' = parsed'.error /\ pc' = "failed"
       ELSE raised' = raised /\ pc' = "parsed"
    /\ UNCHANGED <<gen, ev, text, batch, report, saved, save_report, judge, outcomes, buffer, delivered, chunks, writes, file, change, returned, commits, log, last_size, current_size>>

\* if parsed: gen_result = self.parser.to_generation_result(parsed)
ToGenerationResult ==
    /\ pc = "parsed"
    /\ parsed # ParseNone
    /\ LET r == to_generation_result(parsed)
       IN  IF IsRaise(r)
           THEN raised' = r.error /\ pc' = "failed" /\ gen' = gen
           ELSE raised' = raised /\ pc' = "input" /\ gen' = r
    /\ UNCHANGED <<ev, text, parsed, batch, report, saved, save_report, judge, outcomes, buffer, delivered, chunks, writes, file, change, returned, commits, log, last_size, current_size>>

NextParse == Parse \/ ToGenerationResult \/ Evaluate

SpecParse == InitParse /\ [][NextParse]_vars

(***************************************************************************)
(* Claims about the parser and the path from text to evaluation.           *)
(***************************************************************************)
ParseDone == pc # "text"

LinesOfKind(t, k) == SelectSeq(t, LAMBDA l : l.kind = k)

\* C6: when no line of the text matches the config pattern, parse returns
\* None and raises nothing, whatever else the text holds.
C6_NoConfigNoGeneration ==
    (ParseDone /\ \A i \in DOMAIN text : ~MatchConfig(text[i]))
        => (parsed = ParseNone /\ raised = "")

\* C6 witness: parse returned None on a text without config line that holds a
\* slot line whose float conversion would have failed.
C6_Witness ==
    /\ ParseDone
    /\ parsed = ParseNone
    /\ \A i \in DOMAIN text : ~MatchConfig(text[i])
    /\ \E i \in DOMAIN text : MatchSlot(text[i]) /\ ~SlotFloatsOk(text[i])

\* The text is a rendering: one config line, item lines, and at most one
\* metrics line, which reports the number of item lines.
RenderedText(t) ==
    /\ \A i \in DOMAIN t : t[i] \in Range(RenderedConfigs) \cup Range(RenderedSlots) \cup Range(RenderedMetrics)
    /\ Len(LinesOfKind(t, "config")) = 1
    /\ Len(LinesOfKind(t, "metrics")) <= 1
    /\ \A i \in DOMAIN t : t[i].kind = "metrics" => t[i].tracks = FormatInt(Len(LinesOfKind(t, "slot")))

SlotValueOf(l) == CHOOSE v \in Range(SlotValues) : RenderSlot(v) = l

\* C7: parsing a rendered text with k item lines gives k slots, in the order
\* rendered, and total_tracks = k, with or without the metrics line.
C7_RoundTrip ==
    (ParseDone /\ RenderedText(text))
        => LET items == LinesOfKind(text, "slot")
           IN  /\ parsed.kind = "ParsedGeneration"
               /\ Len(parsed.slots) = Len(items)
               /\ parsed.total_tracks = Len(items)
               /\ \A i \in DOMAIN items :
                    /\ parsed.slots[i].index = SlotValueOf(items[i]).index
                    /\ parsed.slots[i].track = SlotValueOf(items[i]).track
                    /\ parsed.slots[i].tempo_fit = SlotValueOf(items[i]).tempo_fit

\* C7 witness: a rendered text with two item lines, out of index order, was parsed.
C7_Witness ==
    /\ ParseDone
    /\ RenderedText(text)
    /\ Len(parsed.slots) = 2
    /\ parsed.slots[1].index > parsed.slots[2].index

\* C7 witness of the other branch: a rendered text whose metrics line matched.
C7_WitnessMetrics ==
    /\ ParseDone
    /\ RenderedText(text)
    /\ \E i \in DOMAIN text : MatchMetrics(text[i])
    /\ parsed.total_tracks = 1

ConfigValueOf(l) == CHOOSE c \in Range(ConfigValues) : RenderConfig(c) = l

MetricsValueOf(l) == CHOOSE m \in Range(MetricsValues) : RenderMetrics(m) = l

\* The tempoFit a metrics value states: <<>> when it states none.
StatedTempoFit(m) ==
    LET hits == SelectSeq(m.fields, LAMBDA f : f[1] = "tempoFit")
    IN  IF hits = <<>> THEN <<>> ELSE <<hits[1][2]>>

\* The text of C8: one config line, one metrics line stating tempoFit >= 0.85,
\* every item line rendered with tempoFit >= 0.35.
C8_Text(t) ==
    /\ Len(LinesOfKind(t, "config")) = 1
    /\ LinesOfKind(t, "config")[1] \in Range(RenderedConfigs)
    /\ Len(LinesOfKind(t, "metrics")) = 1
    /\ LinesOfKind(t, "metrics")[1] \in Range(RenderedMetrics)
    /\ StatedTempoFit(MetricsValueOf(LinesOfKind(t, "metrics")[1])) # <<>>
    /\ StatedTempoFit(MetricsValueOf(LinesOfKind(t, "metrics")[1]))[1] >= 85
    /\ \A i \in DOMAIN t : t[i].kind = "slot" =>
          (t[i] \in Range(RenderedSlots) /\ SlotValueOf(t[i]).tempo_fit >= 35)

\* C8: text with run:Nm, a metrics line stating tempoFit >= 0.85 and item
\* lines of tempoFit >= 0.35 ends with run_minutes = N, avg_tempo_fit equal to
\* the stated value and a Tempo Fitness score of exactly 10.0.
C8_EndToEnd ==
    (pc = "evaluated" /\ text # <<>> /\ C8_Text(text))
        => /\ gen.run_minutes = ConfigValueOf(LinesOfKind(text, "config")[1]).run_minutes
           /\ gen.avg_tempo_fit = StatedTempoFit(MetricsValueOf(LinesOfKind(text, "metrics")[1]))[1]
           /\ ev.dimension_scores[1].name = "Tempo Fitness"
           /\ ev.dimension_scores[1].score = 10000

\* The case of C8 in which the code does as stated: slotFit follows tempoFit.
C8_WhenSlotFitFollows ==
    (pc = "evaluated" /\ text # <<>> /\ C8_Text(text)
       /\ Len(MetricsValueOf(LinesOfKind(text, "metrics")[1]).fields) = 3)
        => /\ gen.avg_tempo_fit = 90
           /\ ev.dimension_scores[1].score = 10000

(***************************************************************************)
(* comparator.py: GenerationComparator.  A mean is kept exact, as the pair *)
(* of its numerator and denominator; a dict is the sequence of its entries *)
(* in insertion order; gen_id "gen_{i}" is the pair <<"gen_", i>>.         *)
(***************************************************************************)
Ratio(num, den) == [num |-> num, den |-> den]

\* sum(xs) / len(xs) if xs else 0
Mean(xs) == IF xs = <<>> THEN Ratio(0, 1) ELSE Ratio(SeqSum(xs), Len(xs))

\* a < b for two ratios of positive denominator
RatioLess(a, b) == a.num * b.den < b.num * a.den

\* int(sqrt(n)) for n up to 10^6
ISqrt(n) == CHOOSE r \in 0..1000 : r * r <= n /\ (n < (r + 1) * (r + 1) \/ r = 1000)

\* The entries of s without those whose key came earlier: the keys of a dict
\* in insertion order.
RECURSIVE FirstOccurrences(_)
FirstOccurrences(s) ==
    IF s = <<>> THEN <<>>
    ELSE LET rest == FirstOccurrences(SubSeq(s, 1, Len(s) - 1))
             last == s[Len(s)]
         IN  IF \E i \in 1..(Len(s) - 1) : s[i] = last THEN rest ELSE Append(rest, last)

RECURSIVE Flatten(_)
Flatten(ss) == IF ss = <<>> THEN <<>> ELSE ss[1] \o Flatten(Tail(ss))

GenId(i) == <<"gen_", i - 1>>

\* The slots of the batch in the order _analyze_track_usage visits them.
UsageVisits(evaluations) ==
    Flatten([i \in DOMAIN evaluations |->
               [j \in DOMAIN evaluations[i].generation.slots |->
                  [gen_id |-> GenId(i), slot |-> evaluations[i].generation.slots[j]]]])

\* GenerationComparator._analyze_track_usage: one TrackUsageStats per track
\* id, in order of first appearance.
analyze_track_usage(evaluations) ==
    LET visits == UsageVisits(evaluations)
        ids == FirstOccurrences([v \in DOMAIN visits |-> visits[v].slot.track_id])
    IN  [k \in DOMAIN ids |->
           LET mine == SelectSeq(visits, LAMBDA v : v.slot.track_id = ids[k])
           IN  [track_id |-> ids[k],
                artist_name |-> mine[1].slot.artist_name,
                appearance_count |-> Len(mine),
                generations |-> [v \in DOMAIN mine |-> mine[v].gen_id],
                slots_used |-> [v \in DOMAIN mine |-> mine[v].slot.index],
                efforts_assigned |-> [v \in DOMAIN mine |-> mine[v].slot.effort]]]

\* An issue key "type:name:issue" is the tuple <<type, name, text, args>> of
\* its parts ("hard_req:{name}" and "subjective:{issue}" leave a part empty).
IssueKey(issue_type, name, issue) == <<issue_type, name, issue.text, issue.args>>

\* The (key, gen_id, detail) tuples one evaluation emits, in the order of
\* the three loops: failed hard requirements, dimension issues, subjective issues.
EmittedBy(e, gen_id) ==
    LET failed == SelectSeq(e.hard_requirements, LAMBDA r : ~r.passed)
        hard == [k \in DOMAIN failed |->
                   [key |-> IssueKey("hard_req", failed[k].name, Msg("", <<>>)),
                    gen_id |-> gen_id, detail |-> failed[k].details]]
        dims == Flatten([d \in DOMAIN e.dimension_scores |->
                   [k \in DOMAIN e.dimension_scores[d].issues |->
                      [key |-> IssueKey("dim", e.dimension_scores[d].name, e.dimension_scores[d].issues[k]),
                       gen_id |-> gen_id, detail |-> e.dimension_scores[d].issues[k]]]])
        subj == [k \in DOMAIN e.subjective_issues |->
                   [key |-> IssueKey("subjective", "", e.subjective_issues[k]),
                    gen_id |-> gen_id, detail |-> e.subjective_issues[k]]]
    IN  hard \o dims \o subj

\* Every tuple the batch emits, in emission order.
Emitted(evaluations) == Flatten([i \in DOMAIN evaluations |-> EmittedBy(evaluations[i], GenId(i))])

\* sorted(patterns, key=lambda x: -x.occurrence_count): stable, descending.
RECURSIVE SortPatterns(_)
SortPatterns(patterns) ==
    IF patterns = <<>> THEN <<>>
    ELSE LET rest == SortPatterns(SubSeq(patterns, 1, Len(patterns) - 1))
             last == patterns[Len(patterns)]
             ahead == SelectSeq(rest, LAMBDA p : p.occurrence_count >= last.occurrence_count)
             behind == SelectSeq(rest, LAMBDA p : p.occurrence_count < last.occurrence_count)
         IN  ahead \o <<last>> \o behind

\* The IssuePattern objects built from issue_counts, in dict order: only
\* keys with two or more occurrences.
IssuePatterns(evaluations) ==
    LET emitted == Emitted(evaluations)
        keys == FirstOccurrences([k \in DOMAIN emitted |-> emitted[k].key])
        all == [k \in DOMAIN keys |->
                  LET occurrences == SelectSeq(emitted, LAMBDA t : t.key = keys[k])
                  IN  [issue_type |-> keys[k][1],
                       description |-> <<keys[k][2], keys[k][3], keys[k][4]>>,
                       occurrence_count |-> Len(occurrences),
                       affected_generations |-> [o \in DOMAIN occurrences |-> occurrences[o].gen_id],
                       example_details |-> [o \in 1..Min(3, Len(occurrences)) |-> occurrences[o].detail]]]
    IN  SelectSeq(all, LAMBDA p : p.occurrence_count >= 2)

\* Mutant: the patterns are returned in dict order.
find_recurring_issues_unsorted(evaluations) == IssuePatterns(evaluations)

\* GenerationComparator._find_recurring_issues
find_recurring_issues(evaluations) == SortPatterns(IssuePatterns(evaluations))

\* GenerationComparator._analyze_dimensions: name -> mean score, in the order
\* the names are first seen.
analyze_dimensions(evaluations) ==
    LET seen == Flatten([i \in DOMAIN evaluations |-> evaluations[i].dimension_scores])
        names == FirstOccurrences([k \in DOMAIN seen |-> seen[k].name])
    IN  [k \in DOMAIN names |->
           LET mine == SelectSeq(seen, LAMBDA d : d.name = names[k])
           IN  [name |-> names[k], avg |-> Mean([m \in DOMAIN mine |-> mine[m].score])]]

\* GenerationComparator._analyze_templates: template -> (mean score, pass rate)
analyze_templates(evaluations) ==
    LET names == FirstOccurrences([i \in DOMAIN evaluations |-> evaluations[i].generation.template])
    IN  [k \in DOMAIN names |->
           LET mine == SelectSeq(evaluations, LAMBDA e : e.generation.template = names[k])
           IN  [template |-> names[k],
                avg |-> Mean([m \in DOMAIN mine |-> mine[m].overall_score]),
                reliability |-> Mean([m \in DOMAIN mine |-> IF mine[m].all_hard_requirements_passed THEN 1 ELSE 0])]]

\* One entry of _analyze_filter_impact, from the scores with and without the filter.
FilterEntry(with, without) ==
    [with_filter_avg |-> Mean(with), without_filter_avg |-> Mean(without),
     sample_with |-> Len(with), sample_without |-> Len(without)]

\* GenerationComparator._analyze_filter_impact
analyze_filter_impact(evaluations) ==
    LET Scores(es) == [i \in DOMAIN es |-> es[i].overall_score]
    IN  [genre_filter |->
            FilterEntry(Scores(SelectSeq(evaluations, LAMBDA e : e.generation.genres # <<>>)),
                        Scores(SelectSeq(evaluations, LAMBDA e : e.generation.genres = <<>>))),
         decade_filter |->
            FilterEntry(Scores(SelectSeq(evaluations, LAMBDA e : e.generation.decades # <<>>)),
                        Scores(SelectSeq(evaluations, LAMBDA e : e.generation.decades = <<>>)))]

\* GenerationComparator._calc_overlap_rate
calc_overlap_rate(track_stats, num_gens) ==
    IF track_stats = <<>> THEN Ratio(0, 1)
    ELSE Ratio(Len(SelectSeq(track_stats, LAMBDA t : t.appearance_count > 1)), Len(track_stats))

\* Mutant: a track counts as heavily used from its fourth appearance on.
HeavilyUsed_above3(track_stats) == SelectSeq(track_stats, LAMBDA t : t.appearance_count > 3)

\* heavily_used = [t for t in track_stats if t.appearance_count >= 3]
HeavilyUsed(track_stats) == SelectSeq(track_stats, LAMBDA t : t.appearance_count >= 3)

\* GenerationComparator._generate_recommendations
generate_recommendations(track_stats, issues, dim_scores, template_scores, filter_impact) ==
    LET heavily_used == HeavilyUsed(track_stats)
        top == SubSeq(issues, 1, Min(3, Len(issues)))
        recurring == SelectSeq(top, LAMBDA i : i.occurrence_count >= 3)
        weak == SelectSeq(dim_scores, LAMBDA d : d.avg.num < 6000 * d.avg.den)
        under == SelectSeq(template_scores, LAMBDA t : t.avg.num < 600000 * t.avg.den)
        genre_data == filter_impact.genre_filter
        w == genre_data.with_filter_avg
        o == genre_data.without_filter_avg
    IN  (IF heavily_used # <<>>
         THEN <<Msg("High track repetition: {} tracks appear 3+ times.", <<Len(heavily_used)>>)>>
         ELSE <<>>)
        \o [k \in DOMAIN recurring |->
              Msg("Recurring issue ({}x): {}. Affects generations: {}",
                  <<recurring[k].occurrence_count, recurring[k].description,
                    SubSeq(recurring[k].affected_generations, 1, 3)>>)]
        \o [k \in DOMAIN weak |->
              Msg("Weak dimension: {} averages {}/10.",
                  <<weak[k].name, RoundDiv(weak[k].avg.num, weak[k].avg.den * 100)>>)]
        \o [k \in DOMAIN under |->
              Msg("Template '{}' underperforming (avg {}).",
                  <<under[k].template, RoundDiv(under[k].avg.num, under[k].avg.den * 10000)>>)]
        \o (IF w.num * o.den < o.num * w.den - 50000 * w.den * o.den
            THEN <<Msg("Genre filters may be too restrictive", <<>>)>>
            ELSE <<>>)

\* sorted(track_stats, key=lambda x: -x.appearance_count): stable, descending.
RECURSIVE SortTracks(_)
SortTracks(stats) ==
    IF stats = <<>> THEN <<>>
    ELSE LET rest == SortTracks(SubSeq(stats, 1, Len(stats) - 1))
             last == stats[Len(stats)]
             ahead == SelectSeq(rest, LAMBDA t : t.appearance_count >= last.appearance_count)
             behind == SelectSeq(rest, LAMBDA t : t.appearance_count < last.appearance_count)
         IN  ahead \o <<last>> \o behind

\* The standard deviation of the overall scores, taken on scores rounded to
\* hundredths and truncated to hundredths.
ScoreStdDev(scores) ==
    LET n == Len(scores)
        hs == [i \in DOMAIN scores |-> RoundDiv(scores[i], 1000)]
        total == SeqSum(hs)
    IN  ISqrt(SeqSum([i \in DOMAIN hs |-> (n * hs[i] - total) * (n * hs[i] - total)]) \div (n * n * n))

\* The ComparisonReport that compare builds from a non-empty batch (lines 110-157).
ComparisonReport(evaluations, now) ==
    LET scores == [i \in DOMAIN evaluations |-> evaluations[i].overall_score]
        track_stats == analyze_track_usage(evaluations)
        issues == find_recurring_issues(evaluations)
        dim_scores == analyze_dimensions(evaluations)
        templates == analyze_templates(evaluations)
        filter_impact == analyze_filter_impact(evaluations)
        most_used == SortTracks(track_stats)
    IN  [report_id |-> now,
         generations_compared |-> Len(evaluations),
         avg_overall_score |-> Mean(scores),
         score_std_dev |-> ScoreStdDev(scores),
         min_score |-> CHOOSE s \in Range(scores) : \A t \in Range(scores) : s <= t,
         max_score |-> CHOOSE s \in Range(scores) : \A t \in Range(scores) : s >= t,
         hard_req_pass_rate |-> Mean([i \in DOMAIN evaluations |-> IF evaluations[i].all_hard_requirements_passed THEN 1 ELSE 0]),
         most_used_tracks |-> SubSeq(most_used, 1, Min(20, Len(most_used))),
         unique_tracks_total |-> Len(track_stats),
         avg_unique_tracks_per_gen |-> Mean([i \in DOMAIN evaluations |-> Len(evaluations[i].generation.track_ids)]),
         track_overlap_rate |-> calc_overlap_rate(track_stats, Len(evaluations)),
         recurring_issues |-> issues,
         dimension_weaknesses |-> dim_scores,
         template_scores |-> templates,
         filter_impact |-> filter_impact,
         recommendations |-> generate_recommendations(track_stats, issues, dim_scores, templates, filter_impact)]

\* GenerationComparator._save_report: the file written for a report.
SavedFile(r) ==
    [path |-> <<"comparison_", r.report_id>>,
     generations_compared |-> r.generations_compared,
     avg_score |-> r.avg_overall_score,
     unique_tracks |-> r.unique_tracks_total,
     overlap_rate |-> r.track_overlap_rate,
     recurring_issues |-> [k \in 1..Min(10, Len(r.recurring_issues)) |->
                             [type |-> r.recurring_issues[k].issue_type,
                              description |-> r.recurring_issues[k].description,
                              count |-> r.recurring_issues[k].occurrence_count]],
     recommendations |-> r.recommendations]

\* Mutant: an empty batch yields an empty report, which is saved on request.
compare_empty_report(evaluations, save, now) ==
    LET r == IF evaluations = <<>>
             THEN [report_id |-> now, generations_compared |-> 0, recurring_issues |-> <<>>]
             ELSE ComparisonReport(evaluations, now)
    IN  [raised |-> "", report |-> r,
         written |-> IF save /\ evaluations # <<>> THEN {SavedFile(r)}
                     ELSE IF save THEN {[path |-> <<"comparison_", now>>]} ELSE {}]

\* GenerationComparator.compare: what it raises, what it returns and the
\* files it writes.
compare(evaluations, save, now) ==
    IF evaluations = <<>>
    THEN [raised |-> "ValueError", report |-> NoValue, written |-> {}]
    ELSE LET r == ComparisonReport(evaluations, now)
         IN  [raised |-> "", report |-> r, written |-> IF save THEN {SavedFile(r)} ELSE {}]

(***************************************************************************)
(* Evaluations that reach the comparator: CombinedEvaluator.evaluate on a  *)
(* generation of the pool, with the outcome of the external judge.         *)
(***************************************************************************)
MaxBatch == 3

\* What the surroundings of the subjective stage do: the criteria file cannot
\* be read, the client call raises, or the judge answers with a list of issues.
JudgeOutcomes ==
    { [fails |-> "criteria", issues |-> <<>>],
      [fails |-> "client", issues |-> <<>>],
      [fails |-> "", issues |-> <<Msg("Energy feels flat", <<>>)>>],
      [fails |-> "", issues |-> <<Msg("Energy feels flat", <<>>), Msg("Energy feels flat", <<>>)>>] }

\* SubjectiveEvaluator._build_evaluation_prompt: the exception it raises, ""
\* when none.  The track list formats every slot with the format
\* specification ".0f if s.tempo else 'N/A'", which float rejects
\* (ValueError) and None rejects (TypeError).
build_evaluation_prompt(generation) ==
    IF generation.slots = <<>> THEN ""
    ELSE IF generation.slots[1].tempo = <<>> THEN "TypeError"
    ELSE "ValueError"

\* SubjectiveEvaluator.evaluate: the updated result, or the exception that
\* leaves it (criteria and prompt are prepared outside its try block).
SubjectiveEvaluate(generation, objective_result, outcome) ==
    IF outcome.fails = "criteria" THEN ParseRaise("OSError")
    ELSE IF build_evaluation_prompt(generation) # "" THEN ParseRaise(build_evaluation_prompt(generation))
    ELSE IF outcome.fails = "client"
    THEN [objective_result EXCEPT !.subjective_notes = "Subjective evaluation failed: {e}"]
    ELSE [objective_result EXCEPT !.subjective_notes = "notes",
                                  !.subjective_issues = outcome.issues,
                                  !.subjective_suggestions = <<>>]

\* Mutant: the subjective stage is called without the try block around it.
CombinedEvaluate_notry(g, outcome) == SubjectiveEvaluate(g, evaluate(g), outcome)

\* CombinedEvaluator.evaluate with the subjective stage enabled
CombinedEvaluate(g, outcome) ==
    LET result == evaluate(g)
        annotated == SubjectiveEvaluate(g, result, outcome)
    IN  IF IsRaise(annotated)
        THEN [result EXCEPT !.subjective_notes = "Subjective evaluation unavailable: {e}"]
        ELSE annotated

\* The attribute assignments SubjectiveEvaluator.evaluate makes to the
\* objective result, in order: three in the try block when the client
\* answered, one in the except block when it failed, none when the criteria
\* or the prompt raised before the try block.
SubjectiveWrites(generation, outcome) ==
    IF outcome.fails = "criteria" \/ build_evaluation_prompt(generation) # "" THEN <<>>
    ELSE IF outcome.fails = "client"
    THEN <<[field |-> "subjective_notes", value |-> "Subjective evaluation failed: {e}"]>>
    ELSE <<[field |-> "subjective_notes", value |-> "notes"],
           [field |-> "subjective_issues", value |-> outcome.issues],
           [field |-> "subjective_suggestions", value |-> <<>>]>>

\* Mutant: the except block of the subjective stage raises again after its
\* assignment.
CombinedWrites_reraise(g, outcome) ==
    SubjectiveWrites(g, outcome)
    \o (IF IsRaise(SubjectiveEvaluate(g, evaluate(g), outcome)) \/ outcome.fails = "client"
        THEN <<[field |-> "subjective_notes", value |-> "Subjective evaluation unavailable: {e}"]>>
        ELSE <<>>)

\* The assignments made after "result = self.objective.evaluate(generation)":
\* those of the subjective stage, then the one of the except block of
\* CombinedEvaluator.evaluate when the stage raised.
CombinedWrites(g, outcome) ==
    SubjectiveWrites(g, outcome)
    \o (IF IsRaise(SubjectiveEvaluate(g, evaluate(g), outcome))
        THEN <<[field |-> "subjective_notes", value |-> "Subjective evaluation unavailable: {e}"]>>
        ELSE <<>>)

\* The generations the runs of a batch return: two that share a track, one
\* of them filtered and short of its target; one of another template with
\* poor fits; one without slots; one that plays a track twice.
Pool ==
    << GenOf("tempo", <<PlainSlot(1), PlainSlot(2)>>),
       [GenOf("tempo", <<PlainSlot(1), PlainSlot(3)>>) EXCEPT
           !.genres = <<"Rock">>, !.total_seconds = 1500,
           !.avg_tempo_fit = 60, !.avg_slot_fit = 60],
       [GenOf("hiit", <<[PlainSlot(4) EXCEPT !.tempo_fit = 30]>>) EXCEPT
           !.avg_tempo_fit = 40, !.avg_slot_fit = 50, !.decades = <<"90s">>],
       GenOf("tempo", <<>>),
       GenOf("tempo", <<PlainSlot(5), [PlainSlot(5) EXCEPT !.index = 6]>>) >>

InitCompare ==
    /\ pc = "batch"
    /\ batch = <<>>
    /\ gen = NoValue
    /\ ev = NoValue
    /\ text = <<>>
    /\ parsed = NoValue
    /\ report = NoValue
    /\ raised = ""
    /\ saved = {}
    /\ save_report = TRUE
    /\ judge = NoValue
    /\ outcomes = <<>>
    /\ buffer = <<>>
    /\ delivered = <<>>
    /\ chunks = 0
    /\ OtherParts

\* What one combination of the batch meets: runner.run_generation raises,
\* or it returns a generation of the pool and the subjective stage meets one
\* of JudgeOutcomes.
RunOutcomes ==
    {[failed |-> TRUE, n |-> 1, judge |-> CHOOSE o \in JudgeOutcomes : TRUE]}
    \cup [failed : {FALSE}, n : DOMAIN Pool, judge : JudgeOutcomes]

\* The combination raises inside the try block: in the runner or in the evaluator.
RunFails(run) == run.failed \/ IsRaise(CombinedEvaluate(Pool[run.n], run.judge))

\* Mutant: the append stands after the try block, so a failed combination
\* appends the evaluation of the one before.
run_combination_stale(evaluations, run) ==
    IF run.failed
    THEN IF evaluations = <<>> THEN evaluations ELSE Append(evaluations, evaluations[Len(evaluations)])
    ELSE Append(evaluations, CombinedEvaluate(Pool[run.n], run.judge))

\* The body of the loops of run_comparison_batch: the evaluations after one
\* combination.  An exception of the runner or of the evaluator is printed
\* and the combination is left out.
run_combination(evaluations, run) ==
    IF run.failed THEN evaluations
    ELSE LET eval_result == CombinedEvaluate(Pool[run.n], run.judge)
         IN  IF IsRaise(eval_result) THEN evaluations ELSE Append(evaluations, eval_result)

\* One combination of run_comparison_batch is attempted.
RunCombination ==
    /\ pc = "batch"
    /\ Len(outcomes) < MaxBatch
    /\ \E run \in RunOutcomes :
          /\ batch' = run_combination(batch, run)
          /\ outcomes' = Append(outcomes, IF RunFails(run) THEN "failed" ELSE "ok")
    /\ UNCHANGED <<pc, gen, ev, text, parsed, report, raised, saved, save_report, judge, buffer, delivered, chunks, writes, file, change, returned, commits, log, last_size, current_size>>

\* comparator.compare(evaluations, save_report)
Compare ==
    /\ pc = "batch"
    /\ \E save \in BOOLEAN :
          LET out == compare(batch, save, "now")
          IN  /\ save_report' = save
              /\ raised' = out.raised
              /\ report' = out.report
              /\ saved' = saved \cup out.written
              /\ pc' = IF out.raised = "" THEN "compared" ELSE "failed"
    /\ UNCHANGED <<gen, ev, text, parsed, batch, judge, outcomes, buffer, delivered, chunks, writes, file, change, returned, commits, log, last_size, current_size>>

NextCompare == RunCombination \/ Compare

SpecCompare == InitCompare /\ [][NextCompare]_vars

\* C9: compare on an empty batch raises; it returns no report and writes no
\* file, whether or not save_report is set.
C9_EmptyBatchRejected ==
    (pc # "batch" /\ batch = <<>>)
        => (raised = "ValueError" /\ report = NoValue /\ saved = {})

\* C9 witness: compare was called on an empty batch with save_report true.
C9_Witness == pc = "failed" /\ batch = <<>> /\ save_report /\ raised = "ValueError"

\* The number of tuples the batch emits under the key of a pattern.
EmittedUnder(p) ==
    Len(SelectSeq(Emitted(batch), LAMBDA t : t.key = <<p.issue_type>> \o p.description))

\* C10: every reported pattern occurred at least twice, its count is the
\* number of tuples emitted under its key, and the counts never increase
\* along the list.
C10_RecurringIssues ==
    pc = "compared" =>
        /\ \A k \in DOMAIN report.recurring_issues :
              /\ report.recurring_issues[k].occurrence_count >= 2
              /\ report.recurring_issues[k].occurrence_count = EmittedUnder(report.recurring_issues[k])
        /\ \A j, k \in DOMAIN report.recurring_issues :
              j < k => report.recurring_issues[j].occurrence_count >= report.recurring_issues[k].occurrence_count

\* C10 witness: a report whose patterns have different counts and stand in
\* another order than the keys were first seen, from a batch in which some
\* key occurred once only.
C10_Witness ==
    /\ pc = "compared"
    /\ Len(report.recurring_issues) >= 2
    /\ report.recurring_issues[1].occurrence_count = 3
    /\ report.recurring_issues[Len(report.recurring_issues)].occurrence_count = 2
    /\ report.recurring_issues # IssuePatterns(batch)
    /\ \E k \in DOMAIN Emitted(batch) :
          Len(SelectSeq(Emitted(batch), LAMBDA t : t.key = Emitted(batch)[k].key)) = 1

\* C11: every reported pattern names at least two distinct generation ids in
\* affected_generations.
C11_TwoDistinctGenerations ==
    pc = "compared" =>
        \A k \in DOMAIN report.recurring_issues :
            Cardinality(Range(report.recurring_issues[k].affected_generations)) >= 2

\* What the code gives instead: two occurrences, possibly of one generation.
C11_TwoOccurrences ==
    pc = "compared" =>
        \A k \in DOMAIN report.recurring_issues :
            Len(report.recurring_issues[k].affected_generations) >= 2

\* The track ids of one evaluation's generation, and the generations of the
\* batch that carry a given id.
IdsOf(e) == {e.generation.slots[j].track_id : j \in DOMAIN e.generation.slots}

BatchIds == UNION {IdsOf(batch[i]) : i \in DOMAIN batch}

GensWith(id) == {i \in DOMAIN batch : id \in IdsOf(batch[i])}

\* The number of slots across the batch that carry the id.
SlotsWith(id) == Len(SelectSeq(UsageVisits(batch), LAMBDA v : v.slot.track_id = id))

\* C12: track_overlap_rate is 0 when no id occurs in more than one
\* generation, 1 when every id occurs in at least two generations, the share
\* of ids with appearance_count > 1 in general, and 0 without items.
C12_OverlapRate ==
    pc = "compared" =>
        LET rate == report.track_overlap_rate
        IN  /\ (\A id \in BatchIds : Cardinality(GensWith(id)) <= 1) => rate.num = 0
            /\ (BatchIds # {} /\ \A id \in BatchIds : Cardinality(GensWith(id)) >= 2) => rate.num = rate.den
            /\ BatchIds # {} => /\ rate.num = Cardinality({id \in BatchIds : SlotsWith(id) > 1})
                                /\ rate.den = Cardinality(BatchIds)
            /\ BatchIds = {} => rate.num = 0

\* The parts of C12 the code meets: the general formula, the value 1 and the
\* value 0 of a batch without items.
C12_ShareOfRepeatedSlots ==
    pc = "compared" =>
        LET rate == report.track_overlap_rate
        IN  /\ (BatchIds # {} /\ \A id \in BatchIds : Cardinality(GensWith(id)) >= 2) => rate.num = rate.den
            /\ BatchIds # {} => /\ rate.num = Cardinality({id \in BatchIds : SlotsWith(id) > 1})
                                /\ rate.den = Cardinality(BatchIds)
            /\ BatchIds = {} => rate.num = 0

HighRepetition(m) == m.text = "High track repetition: {} tracks appear 3+ times."

\* C13: the usage table has one row per track id of the batch, whose
\* appearance_count is the number of slots carrying the id; the high
\* repetition entry is recommended exactly when some id has three or more
\* slots, and then it comes first.
C13_UsageAndRepetition ==
    pc = "compared" =>
        LET table == report.most_used_tracks
            recs == report.recommendations
        IN  /\ {table[k].track_id : k \in DOMAIN table} = BatchIds
            /\ Len(table) = Cardinality(BatchIds)
            /\ \A k \in DOMAIN table : table[k].appearance_count = SlotsWith(table[k].track_id)
            /\ (\E id \in BatchIds : SlotsWith(id) >= 3) <=> (\E k \in DOMAIN recs : HighRepetition(recs[k]))
            /\ \A k \in DOMAIN recs : HighRepetition(recs[k]) => k = 1

\* C13 witness: a track carried by all three evaluations of the batch, counted
\* three times and recommended first, ahead of another recommendation.
C13_Witness ==
    /\ pc = "compared"
    /\ Len(batch) = 3
    /\ \E id \in BatchIds : Cardinality(GensWith(id)) = 3 /\ SlotsWith(id) = 3
    /\ Len(report.recommendations) >= 2
    /\ HighRepetition(report.recommendations[1])

\* The track ids the usage table records for the generation gen_id.
TableIdsOf(table, gen_id) ==
    {table[k].track_id : k \in {j \in DOMAIN table : gen_id \in Range(table[j].generations)}}

RECURSIVE SetSum(_, _)
SetSum(S, f) ==
    IF S = {} THEN 0 ELSE LET x == CHOOSE y \in S : TRUE IN f[x] + SetSum(S \ {x}, f)

\* C14: avg_unique_tracks_per_gen and track_overlap_rate follow from the usage
\* table and the batch size: the first is the mean over the generations of
\* the number of distinct ids the table records for the generation, the
\* second the share of rows with appearance_count > 1.
C14_FromUsageTable ==
    pc = "compared" =>
        LET table == report.most_used_tracks
            n == report.generations_compared
            distinct == [i \in 1..n |-> Cardinality(TableIdsOf(table, GenId(i)))]
            repeated == Cardinality({k \in DOMAIN table : table[k].appearance_count > 1})
        IN  /\ report.avg_unique_tracks_per_gen.num * n
                 = SetSum(1..n, distinct) * report.avg_unique_tracks_per_gen.den
            /\ report.track_overlap_rate.num * Max(1, Len(table))
                 = repeated * report.track_overlap_rate.den

\* The part of C14 the code meets: the overlap rate follows from the table.
C14_OverlapFromTable ==
    pc = "compared" =>
        LET table == report.most_used_tracks
            repeated == Cardinality({k \in DOMAIN table : table[k].appearance_count > 1})
        IN  report.track_overlap_rate.num * Max(1, Len(table)) = repeated * report.track_overlap_rate.den

\* The overall scores of the evaluations of the batch with (without) a filter
\* of the kind "genres" or "decades".
ScoresWhere(kind, filtered) ==
    LET Has(e) == IF kind = "genres" THEN e.generation.genres # <<>> ELSE e.generation.decades # <<>>
        chosen == SelectSeq(batch, LAMBDA e : Has(e) = filtered)
    IN  [i \in DOMAIN chosen |-> chosen[i].overall_score]

\* Both partitions exist and the mean with the filter is more than 0.5 below
\* the mean without it.
FilterHurts(kind) ==
    LET w == ScoresWhere(kind, TRUE)
        o == ScoresWhere(kind, FALSE)
    IN  /\ w # <<>>
        /\ o # <<>>
        /\ SeqSum(w) * Len(o) < SeqSum(o) * Len(w) - 50000 * Len(w) * Len(o)

Recommends(t) == \E k \in DOMAIN report.recommendations : report.recommendations[k].text = t

\* C15: for the genre filter and for the decade filter alike, a
\* restrictiveness entry is recommended whenever the mean score with the
\* filter is more than 0.5 below the mean score without it.
C15_BothFilterKinds ==
    pc = "compared" =>
        /\ FilterHurts("genres") => Recommends("Genre filters may be too restrictive")
        /\ FilterHurts("decades") => Recommends("Decade filters may be too restrictive")

\* The part of C15 the code meets: the genre filter.
C15_GenreFilterOnly ==
    pc = "compared" => (FilterHurts("genres") => Recommends("Genre filters may be too restrictive"))

(***************************************************************************)
(* Specification SpecCombined: a generation is handed to                   *)
(* CombinedEvaluator.evaluate; the subjective stage meets one of           *)
(* JudgeOutcomes.                                                          *)
(***************************************************************************)
InitCombined ==
    /\ pc = "input"
    /\ \/ TempoInit
       \/ \E ch \in SeqsUpTo([tempo : {<<>>, <<12000>>}, energy : {<<60>>}], MaxSlots) : gen = FlowGen(ch)
    /\ ev = NoValue
    /\ text = <<>>
    /\ parsed = NoValue
    /\ batch = <<>>
    /\ report = NoValue
    /\ raised = ""
    /\ saved = {}
    /\ save_report = TRUE
    /\ judge = NoValue
    /\ outcomes = <<>>
    /\ buffer = <<>>
    /\ delivered = <<>>
    /\ chunks = 0
    /\ OtherParts

\* eval_result = CombinedEvaluator(use_subjective=True).evaluate(gen)
EvaluateCombined ==
    /\ pc = "input"
    /\ \E outcome \in JudgeOutcomes :
          LET r == CombinedEvaluate(gen, outcome)
          IN  /\ judge' = outcome
              /\ writes' = CombinedWrites(gen, outcome)
              /\ IF IsRaise(r)
                 THEN raised' = r.error /\ ev' = ev /\ pc' = "failed"
                 ELSE raised' = raised /\ ev' = r /\ pc' = "evaluated"
    /\ UNCHANGED <<gen, text, parsed, batch, report, saved, save_report, outcomes, buffer, delivered, chunks, file, change, returned, commits, log, last_size, current_size>>

NextCombined == EvaluateCombined

SpecCombined == InitCombined /\ [][NextCombined]_vars

\* The subjective stage failed at some step: reading the criteria, building
\* the prompt, or calling the client.
JudgeFailed == judge.fails # "" \/ build_evaluation_prompt(gen) # ""

FailureNotes == {"Subjective evaluation failed: {e}", "Subjective evaluation unavailable: {e}"}

\* C16: when the subjective stage fails, CombinedEvaluator.evaluate still
\* returns the objective stage's hard requirements, pass flag, dimension
\* scores and overall score, nothing is raised, and subjective_notes records
\* the failure.
C16_SubjectiveFailureContained ==
    (pc # "input" /\ JudgeFailed)
        => /\ pc = "evaluated"
           /\ raised = ""
           /\ ev.hard_requirements = check_hard_requirements(gen)
           /\ ev.all_hard_requirements_passed = AllPassed(check_hard_requirements(gen))
           /\ ev.dimension_scores = score_dimensions(gen)
           /\ ev.overall_score = WeightedSum(score_dimensions(gen))
           /\ ev.subjective_notes \in FailureNotes

\* C16 witness: the prompt could not be built for a generation with slots,
\* although criteria and client were fine; the evaluation carries dimension
\* issues and the failure note.
C16_Witness ==
    /\ pc = "evaluated"
    /\ judge.fails = ""
    /\ gen.slots # <<>>
    /\ ev.subjective_notes = "Subjective evaluation unavailable: {e}"
    /\ \E d \in DOMAIN ev.dimension_scores : ev.dimension_scores[d].issues # <<>>

\* C16 witness of the other handler: the client call failed for a generation
\* without slots.
C16_WitnessClient ==
    /\ pc = "evaluated"
    /\ judge.fails = "client"
    /\ gen.slots = <<>>
    /\ ev.subjective_notes = "Subjective evaluation failed: {e}"

\* C17: a failed combination does not stop run_comparison_batch and is left
\* out of the aggregate: the evaluations are those of the combinations that
\* succeeded, and when at least one succeeded the report is produced with
\* generations_compared equal to their number.
C17_FailuresSkipped ==
    /\ Len(batch) = Count(outcomes, "ok")
    /\ (pc \in {"compared", "failed"} /\ Count(outcomes, "ok") >= 1)
          => (pc = "compared" /\ report.generations_compared = Count(outcomes, "ok"))

\* C17 witness: a report over two evaluations, from three combinations of
\* which the second failed.
C17_Witness ==
    /\ pc = "compared"
    /\ outcomes = <<"ok", "failed", "ok">>
    /\ report.generations_compared = 2

(***************************************************************************)
(* Specification SpecWatch: ConsoleWatcher fed chunk by chunk, wired as    *)
(* LiveAgentTrigger wires it (on_generation = _on_generation).  A chunk is *)
(* the list content.split("\n") gives; a line of kind "other" stands for   *)
(* an empty or foreign line.                                               *)
(***************************************************************************)
MaxChunks == 3

ChunkTable ==
    << <<RenderedConfigs[1]>>,
       <<RenderedSlots[1]>>,
       <<OddLines[3]>>,
       <<OddLines[2]>>,
       <<RenderedMetrics[1], OddLines[6]>>,
       <<OddLines[6]>>,
       <<RenderedConfigs[2], RenderedSlots[1], RenderedSlots[2]>>,
       <<RenderedConfigs[1], RenderedSlots[1], RenderedMetrics[1], OddLines[6]>> >>

\* "LocalGen metrics" in buffer_text
HasMarker(lines) == \E i \in DOMAIN lines : lines[i].kind = "metrics"

\* The buffer _process_buffer leaves behind: "self._buffer = []" is its last
\* statement, reached unless parse or on_generation raised.
BufferAfter(lines, exception) == IF exception = "" THEN <<>> ELSE lines

InitWatch ==
    /\ pc = "watching"
    /\ gen = NoValue
    /\ ev = NoValue
    /\ text = <<>>
    /\ parsed = NoValue
    /\ batch = <<>>
    /\ report = NoValue
    /\ raised = ""
    /\ saved = {}
    /\ save_report = TRUE
    /\ judge = NoValue
    /\ outcomes = <<>>
    /\ buffer = <<>>
    /\ delivered = <<>>
    /\ chunks = 0
    /\ OtherParts

\* ConsoleWatcher._process_content(content), with text' the lines of
\* content: the buffer is extended; when it holds the marker, _process_buffer
\* parses it, hands a ParsedGeneration to LiveAgentTrigger._on_generation
\* (to_generation_result, then evaluate) and clears the buffer.
HandleContent ==
    /\ parsed' = IF HasMarker(buffer \o text') THEN parse(buffer \o text') ELSE parsed
    /\ LET marker == HasMarker(buffer \o text')
           called == marker /\ ~IsRaise(parsed') /\ parsed' # ParseNone
       IN  /\ delivered' = IF called THEN Append(delivered, parsed') ELSE delivered
           /\ gen' = IF called THEN to_generation_result(parsed') ELSE gen
           /\ raised' = IF marker /\ IsRaise(parsed') THEN parsed'.error
                        ELSE IF called /\ IsRaise(gen') THEN gen'.error
                        ELSE raised
           /\ ev' = IF called /\ ~IsRaise(gen') THEN evaluate(gen') ELSE ev
           /\ buffer' = IF marker THEN BufferAfter(buffer \o text', raised') ELSE buffer \o text'

\* One call of _process_content with a chunk of ChunkTable.
ProcessContent ==
    /\ pc = "watching"
    /\ chunks < MaxChunks
    /\ \E c \in DOMAIN ChunkTable : text' = ChunkTable[c]
    /\ chunks' = chunks + 1
    /\ HandleContent
    /\ pc' = IF raised' = "" THEN "watching" ELSE "failed"
    /\ UNCHANGED <<batch, report, saved, save_report, judge, outcomes, writes, file, change, returned, commits, log, last_size, current_size>>

NextWatch == ProcessContent

SpecWatch == InitWatch /\ [][NextWatch]_vars


\* The step of the watcher that consumed the chunk text'.
ChunkStep == chunks' = chunks + 1

\* The parse of the accumulated buffer returned a ParsedGeneration.
ParseSucceeded == ~IsRaise(parsed') /\ parsed' # ParseNone

\* C18: after a chunk is appended to the buffer: with the metrics marker in
\* the accumulated buffer the whole buffer is parsed, and when that parse
\* succeeds on_generation is invoked exactly once with the parsed generation
\* and the buffer is empty afterwards; without the marker the buffer only
\* grows and no callback occurs.
C18_ParseCallbackClear ==
    [][ChunkStep =>
        IF HasMarker(buffer \o text')
        THEN /\ parsed' = parse(buffer \o text')
             /\ ParseSucceeded =>
                    /\ delivered' = Append(delivered, parsed')
                    /\ buffer' = <<>>
        ELSE /\ buffer' = buffer \o text'
             /\ delivered' = delivered]_vars

\* The part of C18 the code keeps: the buffer is empty after a successful
\* parse whenever on_generation returned instead of raising.
C18_ClearedWhenCallbackReturns ==
    [][ChunkStep =>
        IF HasMarker(buffer \o text')
        THEN /\ parsed' = parse(buffer \o text')
             /\ ParseSucceeded =>
                    /\ delivered' = Append(delivered, parsed')
                    /\ raised' = "" => buffer' = <<>>
        ELSE /\ buffer' = buffer \o text'
             /\ delivered' = delivered]_vars

\* A generation was delivered and the buffer cleared (the case C18 is about).
C18_Delivered == ~(pc = "watching" /\ delivered # <<>> /\ buffer = <<>> /\ chunks > 1)

(***************************************************************************)
(* Claims about the records the builders produce.                          *)
(***************************************************************************)
\* The index values of the slots, in slot order.
SlotIndexes(slots) == [i \in DOMAIN slots |-> slots[i].index]

PairwiseDistinct(s) == \A i, j \in DOMAIN s : i # j => s[i] # s[j]

\* The values of s fill a range of integers without a gap.
Contiguous(s) ==
    \A i, j \in DOMAIN s :
        \A v \in s[i]..s[j] : \E k \in DOMAIN s : s[k] = v

\* C19: every Generation built from parsed log text (parse followed by
\* to_generation_result) has slot index values that are pairwise distinct and
\* contiguous.
C19_IndexUniqueContiguous ==
    (pc \in {"input", "evaluated"} /\ gen # NoValue) =>
        /\ PairwiseDistinct(SlotIndexes(gen.slots))
        /\ Contiguous(SlotIndexes(gen.slots))

(***************************************************************************)
(* Claims about blocks with several config and several metrics lines.      *)
(***************************************************************************)
\* A block of rendered lines with several config and several metrics lines.
BlockText(t) ==
    /\ \A i \in DOMAIN t : t[i] \in Range(RenderedConfigs) \cup Range(RenderedSlots) \cup Range(RenderedMetrics)
    /\ Len(LinesOfKind(t, "config")) >= 2
    /\ Len(LinesOfKind(t, "metrics")) >= 2

\* template, run_minutes, planned segment lengths and filter lists are those
\* of the first config line of t.
FromFirstConfig(t, p) ==
    LET c == ConfigValueOf(LinesOfKind(t, "config")[1])
    IN  /\ p.template = c.template
        /\ p.run_minutes = c.run_minutes
        /\ p.warmup_seconds = c.wu * 60
        /\ p.main_seconds = c.main * 60
        /\ p.cooldown_seconds = c.cd * 60
        /\ p.genres = [i \in DOMAIN c.genres |-> <<c.genres[i]>>]
        /\ p.decades = [i \in DOMAIN c.decades |-> <<c.decades[i]>>]

\* One slot for every item line of t, in line order.
OneSlotPerItemLine(t, p) ==
    LET items == LinesOfKind(t, "slot")
    IN  /\ Len(p.slots) = Len(items)
        /\ \A i \in DOMAIN items : p.slots[i].index = SlotValueOf(items[i]).index

\* The totals of p are those the metrics line l states.
TotalsFrom(l, p) ==
    /\ p.total_tracks = MetricsValueOf(l).tracks
    /\ p.total_seconds = MetricsValueOf(l).time

\* C20: for a block with several config lines and several metrics lines,
\* parse takes template, run_minutes, planned segment lengths and filter
\* lists from the first config line, the totals from the first metrics line,
\* and collects one slot per item line in line order, wherever the item line
\* stands relative to the config line.
C20_FirstConfigFirstMetrics ==
    (ParseDone /\ BlockText(text)) =>
        /\ ~IsRaise(parsed) /\ parsed # ParseNone
        /\ FromFirstConfig(text, parsed)
        /\ TotalsFrom(LinesOfKind(text, "metrics")[1], parsed)
        /\ OneSlotPerItemLine(text, parsed)

\* The part of C20 the code keeps: the config values are those of the first
\* config line, every item line gives a slot, and the totals are those of
\* the first metrics line that the metrics pattern matches.
C20_FirstMatchingMetrics ==
    (ParseDone /\ BlockText(text)) =>
        /\ ~IsRaise(parsed) /\ parsed # ParseNone
        /\ FromFirstConfig(text, parsed)
        /\ OneSlotPerItemLine(text, parsed)
        /\ LET matching == SelectSeq(text, MatchMetrics)
           IN  IF matching = <<>>
               THEN parsed.total_tracks = Len(parsed.slots) /\ parsed.total_seconds = 0
               ELSE TotalsFrom(matching[1], parsed)

(***************************************************************************)
(* Further claims about the dimension scorers, checked under Spec.         *)
(***************************************************************************)
\* The DimensionScore of the evaluation with the given name.
DimensionNamed(e, name) ==
    e.dimension_scores[CHOOSE i \in DOMAIN e.dimension_scores : e.dimension_scores[i].name = name]

\* The efforts of the main-segment slots, in slot order.
MainEffortsOf(g) ==
    LET main == SelectSeq(g.slots, LAMBDA s : s.segment = "main")
    IN  [i \in DOMAIN main |-> main[i].effort]

\* The consecutive main-segment pairs whose effort tags differ.
DifferingPairs(efforts) == {i \in 2..Len(efforts) : efforts[i] # efforts[i - 1]}

AlternationPenalised(e) ==
    \E k \in DOMAIN DimensionNamed(e, "Energy Arc").issues :
        DimensionNamed(e, "Energy Arc").issues[k] = Msg("HIIT doesn't alternate enough", <<>>)

\* C21: for a generation with a non-empty main segment, the "doesn't
\* alternate enough" penalty of Energy Arc is applied exactly when the
\* template is hiit and fewer than half of the consecutive main-segment
\* pairs differ in effort; for no other template is it applied.
C21_HalfOfThePairs ==
    (Evaluated /\ MainEffortsOf(gen) # <<>>) =>
        LET efforts == MainEffortsOf(gen)
            pairs == Len(efforts) - 1
        IN  AlternationPenalised(ev)
                <=> (gen.template = "hiit" /\ 2 * Cardinality(DifferingPairs(efforts)) < pairs)

\* The part of C21 the code keeps: the penalty is applied only for hiit, and
\* there exactly when the differing pairs are fewer than half of the
\* main-segment slots.
C21_HalfOfTheSlots ==
    (Evaluated /\ MainEffortsOf(gen) # <<>>) =>
        LET efforts == MainEffortsOf(gen)
        IN  AlternationPenalised(ev)
                <=> (gen.template = "hiit" /\ 2 * Cardinality(DifferingPairs(efforts)) < Len(efforts))

\* The affinity scale of Filter Adherence (thresholds 0.8 / 0.6 / 0.4), in
\* thousandths of a point for an affinity in hundredths.
AffinityScale(a) ==
    IF a >= 80 THEN 10000
    ELSE IF a >= 60 THEN 8000 + (a - 60) * 100
    ELSE IF a >= 40 THEN 6000 + (a - 40) * 100
    ELSE Max(1000, a * 150)

ZeroAffinitySlots(g) == Cardinality({i \in DOMAIN g.slots : g.slots[i].genre_affinity = 0})

NoFilterRequested(g) == g.genres = <<>> /\ g.decades = <<>>

\* C22: without a requested filter Filter Adherence is exactly 10.0 with no
\* issues; with a filter of either kind it is the affinity-scale value reduced
\* by 0.5 for each slot whose genre_affinity is zero, floored at 1.0.
C22_PenaltyForEitherFilter ==
    Evaluated =>
        LET d == DimensionNamed(ev, "Filter Adherence")
        IN  IF NoFilterRequested(gen)
            THEN d.score = 10000 /\ d.issues = <<>>
            ELSE d.score = Max(1000, AffinityScale(gen.avg_genre_affinity) - 500 * ZeroAffinitySlots(gen))

\* C22 as amended: the reduction by 0.5 per zero-affinity slot is made only
\* when a genre filter was requested; with a decade filter alone the score is
\* the affinity-scale value.
C22_PenaltyForGenreFilter ==
    Evaluated =>
        LET d == DimensionNamed(ev, "Filter Adherence")
            scale == AffinityScale(gen.avg_genre_affinity)
        IN  IF NoFilterRequested(gen)
            THEN d.score = 10000 /\ d.issues = <<>>
            ELSE IF gen.genres # <<>>
            THEN d.score = Max(1000, scale - 500 * ZeroAffinitySlots(gen))
            ELSE d.score = scale

\* C22 witness: a decade filter alone, with a zero-affinity slot, was scored.
C22_Witness ==
    /\ Evaluated
    /\ gen.genres = <<>> /\ gen.decades # <<>>
    /\ ZeroAffinitySlots(gen) > 0
    /\ DimensionNamed(ev, "Filter Adherence").score = 9000

\* The pair (slots[j-1], slots[j]) has a tempo delta above 20 BPM, a value of
\* 0 counting as any other value.
TempoDeltaAbove20(slots, j) ==
    /\ slots[j-1].tempo # <<>> /\ slots[j].tempo # <<>>
    /\ Abs(slots[j-1].tempo[1] - slots[j].tempo[1]) > 2000

EnergyDeltaAbove03(slots, j) ==
    /\ slots[j-1].energy # <<>> /\ slots[j].energy # <<>>
    /\ Abs(slots[j-1].energy[1] - slots[j].energy[1]) > 30

\* The score C23 states for a number of jumps.
FlowScoreFor(jumps) == IF jumps = 0 THEN 9000 ELSE 7000 - Min(3000, 500 * jumps)

\* C23: with at least 2 slots, each adjacent pair whose tempo delta exceeds
\* 20 or whose energy delta exceeds 0.3 counts as a jump, a value of 0
\* included; the Flow score is 9.0 with zero jumps, else 7.0 - min(3.0, 0.5 x
\* jumps), and never below 4.0.  The jumps are counted per pair or, as the
\* code's counter does, once per feature of a pair: either count is accepted.
C23_JumpsWithZeroValues ==
    (Evaluated /\ Len(gen.slots) >= 2) =>
        LET slots == gen.slots
            pairs == {j \in 2..Len(slots) : TempoDeltaAbove20(slots, j) \/ EnergyDeltaAbove03(slots, j)}
            both == {j \in 2..Len(slots) : TempoDeltaAbove20(slots, j) /\ EnergyDeltaAbove03(slots, j)}
            d == DimensionNamed(ev, "Flow & Transitions")
        IN  /\ d.score >= 4000
            /\ \/ d.score = FlowScoreFor(Cardinality(pairs))
               \/ d.score = FlowScoreFor(Cardinality(pairs) + Cardinality(both))

\* The part of C23 the code keeps: the score is 9.0 with zero counted jumps,
\* else 7.0 - min(3.0, 0.5 x jumps), never below 4.0, where a feature of a
\* pair is counted only when neither of its two values is None or 0.
C23_JumpsOfNonZeroValues ==
    (Evaluated /\ Len(gen.slots) >= 2) =>
        LET slots == gen.slots
            tempo_jumps == {j \in 2..Len(slots) :
                               TempoDeltaAbove20(slots, j) /\ slots[j-1].tempo[1] # 0 /\ slots[j].tempo[1] # 0}
            energy_jumps == {j \in 2..Len(slots) :
                               EnergyDeltaAbove03(slots, j) /\ slots[j-1].energy[1] # 0 /\ slots[j].energy[1] # 0}
            d == DimensionNamed(ev, "Flow & Transitions")
        IN  /\ d.score >= 4000
            /\ d.score = FlowScoreFor(Cardinality(tempo_jumps) + Cardinality(energy_jumps))

(***************************************************************************)
(* Claims about the late subjective fields, checked under SpecCombined.    *)
(***************************************************************************)
SubjectiveFields == {"subjective_notes", "subjective_issues", "subjective_suggestions"}

\* The record after the assignments ws were made to it, in order.
RECURSIVE ApplyWrites(_, _)
ApplyWrites(r, ws) ==
    IF ws = <<>> THEN r
    ELSE ApplyWrites([r EXCEPT ![Head(ws).field] = Head(ws).value], Tail(ws))

TimesAssigned(ws, f) == Cardinality({i \in DOMAIN ws : ws[i].field = f})

\* C24: on every path of CombinedEvaluator.evaluate (judge succeeds, judge
\* call fails, criteria or prompt fail) each of subjective_notes,
\* subjective_issues and subjective_suggestions is assigned at most once
\* after the objective record was constructed, and no objective field is
\* assigned: the returned Evaluation is the objective record with these
\* assignments.
C24_SingleLateWrite ==
    (pc \in {"evaluated", "failed"} /\ judge # NoValue) =>
        /\ pc = "evaluated"
        /\ \A f \in SubjectiveFields : TimesAssigned(writes, f) <= 1
        /\ \A i \in DOMAIN writes : writes[i].field \in SubjectiveFields
        /\ ev = ApplyWrites(evaluate(gen), writes)

\* C24 witness: the judge answered and each of the three fields was assigned.
C24_Witness ==
    /\ pc = "evaluated"
    /\ judge # NoValue
    /\ judge.fails = ""
    /\ Len(writes) = 3
    /\ ev.subjective_issues # <<>>

\* C24 witness of a failing path: the prompt could not be built, and the only
\* assignment is the one of CombinedEvaluator's except block.
C24_WitnessFailure ==
    /\ pc = "evaluated"
    /\ judge # NoValue
    /\ gen.slots # <<>>
    /\ Len(writes) = 1
    /\ ev.subjective_notes = "Subjective evaluation unavailable: {e}"

(***************************************************************************)
(* modifier.py: SafeModifier.  A file content and a piece of code are      *)
(* strings, modelled as sequences of characters; the file variable is      *)
(* <<content>>, or <<>> when the path cannot be read.                      *)
(***************************************************************************)
MaxFile == 3

MaxCode == 2

Chars == {"a", "b"}

\* "sub in s" at position i (1-based); the empty string occurs everywhere.
OccursAt(sub, s, i) ==
    /\ i >= 1 /\ i + Len(sub) - 1 <= Len(s)
    /\ SubSeq(s, i, i + Len(sub) - 1) = sub

\* str.find + 1: position of the first occurrence, 0 when there is none.
FindFirst(sub, s) ==
    IF \E i \in 1..(Len(s) + 1) : OccursAt(sub, s, i)
    THEN CHOOSE i \in 1..(Len(s) + 1) :
            OccursAt(sub, s, i) /\ \A k \in 1..(i - 1) : ~OccursAt(sub, s, k)
    ELSE 0

\* content.replace(old, new, 1)
ReplaceFirst(content, old, new) ==
    LET i == FindFirst(old, content)
    IN  IF i = 0 THEN content
        ELSE SubSeq(content, 1, i - 1) \o new \o SubSeq(content, i + Len(old), Len(content))

\* CodeChange(file_path, old_code, new_code, rationale, is_structural)
CodeChange(old_code, new_code, is_structural) ==
    [old_code |-> old_code, new_code |-> new_code, is_structural |-> is_structural,
     applied |-> FALSE, approved |-> FALSE]

\* SafeModifier.apply_change: the file afterwards, the change afterwards, and
\* the success and error of the ChangeResult.
apply_change(f, ch) ==
    IF f = <<>>
    THEN [file |-> f, change |-> ch, success |-> FALSE, error |-> "read failed"]
    ELSE IF FindFirst(ch.old_code, f[1]) = 0
    THEN [file |-> f, change |-> ch, success |-> FALSE, error |-> "Could not find the code to replace"]
    ELSE IF ReplaceFirst(f[1], ch.old_code, ch.new_code) = f[1]
    THEN [file |-> f, change |-> ch, success |-> FALSE, error |-> "No change was made"]
    ELSE [file |-> <<ReplaceFirst(f[1], ch.old_code, ch.new_code)>>,
          change |-> [ch EXCEPT !.applied = TRUE], success |-> TRUE, error |-> ""]

\* SafeModifier.revert_change: apply_change of the swapped change; the
\* change's applied flag is cleared when that succeeded.
revert_change(f, ch) ==
    IF ~ch.applied THEN [file |-> f, change |-> ch, success |-> FALSE]
    ELSE LET revert == CodeChange(ch.new_code, ch.old_code, FALSE)
             r == apply_change(f, revert)
         IN  [file |-> r.file,
              change |-> IF r.success THEN [ch EXCEPT !.applied = FALSE] ELSE ch,
              success |-> r.success]

\* SafeModifier.apply_and_test, with build_ok what run_swift_build returned.
apply_and_test(f, ch, build_ok) ==
    LET r == apply_change(f, ch)
        back == revert_change(r.file, r.change)
    IN  IF ~r.success THEN r
        ELSE IF ~build_ok
        THEN [file |-> back.file, change |-> back.change, success |-> FALSE,
              error |-> "Build failed after change"]
        ELSE r

\* input(...).strip().lower() of the answers typed at the approval prompt.
StripLower(answer) == IF answer \in {"Y", " y "} THEN "y" ELSE IF answer = "N" THEN "n" ELSE answer

\* The answers typed at the prompt, up to the first that is accepted.
ApprovalInputs == {<<"y">>, <<"n">>, <<"d", "Y">>, <<"yes", "N">>, <<"", " y ">>}

\* SafeModifier.request_approval: the loop reads answers until one is "y"
\* (approved) or "n" (refused); "d" shows a diff and every other answer asks again.
RECURSIVE request_approval(_)
request_approval(answers) ==
    IF StripLower(Head(answers)) = "y" THEN TRUE
    ELSE IF StripLower(Head(answers)) = "n" THEN FALSE
    ELSE request_approval(Tail(answers))

\* Mutant: the change is applied and tested before approval is asked for.
tool_propose_structural_change_applyfirst(f, old_code, new_code, answers, build_ok) ==
    LET approved == request_approval(answers)
        ch == [CodeChange(old_code, new_code, TRUE) EXCEPT !.approved = approved]
        r == apply_and_test(f, ch, build_ok)
    IN  IF ~approved
        THEN [file |-> r.file, change |-> r.change, committed |-> <<>>,
              returned |-> [approved |-> FALSE, applied |-> FALSE]]
        ELSE IF r.success
        THEN [file |-> r.file, change |-> r.change, committed |-> <<r.file[1]>>,
              returned |-> [approved |-> TRUE, applied |-> TRUE]]
        ELSE [file |-> r.file, change |-> r.change, committed |-> <<>>,
              returned |-> [approved |-> TRUE, applied |-> FALSE, error |-> r.error]]

\* AgentOrchestrator._tool_propose_structural_change: the change is built,
\* approval is requested, and only an approved change goes to apply_and_test
\* and, when that succeeded, to commit_change (committed: the content
\* committed, if any).
tool_propose_structural_change(f, old_code, new_code, answers, build_ok) ==
    LET approved == request_approval(answers)
        ch == [CodeChange(old_code, new_code, TRUE) EXCEPT !.approved = approved]
        r == apply_and_test(f, ch, build_ok)
    IN  IF ~approved
        THEN [file |-> f, change |-> ch, committed |-> <<>>,
              returned |-> [approved |-> FALSE, applied |-> FALSE]]
        ELSE IF r.success
        THEN [file |-> r.file, change |-> r.change, committed |-> <<r.file[1]>>,
              returned |-> [approved |-> TRUE, applied |-> TRUE]]
        ELSE [file |-> r.file, change |-> r.change, committed |-> <<>>,
              returned |-> [approved |-> TRUE, applied |-> FALSE, error |-> r.error]]

(***************************************************************************)
(* Specification SpecModify: a file of the repository and one call of the  *)
(* modifier, either apply_and_test itself or the structural-change tool.   *)
(***************************************************************************)
InitModify ==
    /\ pc = "idle"
    /\ gen = NoValue
    /\ ev = NoValue
    /\ text = <<>>
    /\ parsed = NoValue
    /\ batch = <<>>
    /\ report = NoValue
    /\ raised = ""
    /\ saved = {}
    /\ save_report = TRUE
    /\ judge = NoValue
    /\ outcomes = <<>>
    /\ buffer = <<>>
    /\ delivered = <<>>
    /\ chunks = 0
    /\ writes = <<>>
    /\ \/ file = <<>>
       \/ \E content \in SeqsUpTo(Chars, MaxFile) : file = <<content>>
    /\ change = NoValue
    /\ returned = NoValue
    /\ commits = <<>>
    /\ log = <<>>
    /\ last_size = 0
    /\ current_size = 0

\* result = modifier.apply_and_test(change)
ApplyAndTest ==
    /\ pc = "idle"
    /\ \E old_code, new_code \in SeqsUpTo(Chars, MaxCode), build_ok \in BOOLEAN :
          LET r == apply_and_test(file, CodeChange(old_code, new_code, FALSE), build_ok)
          IN  /\ file' = r.file
              /\ change' = r.change
              /\ returned' = [success |-> r.success, error |-> r.error]
    /\ pc' = "tested"
    /\ UNCHANGED <<gen, ev, text, parsed, batch, report, raised, saved, save_report, judge, outcomes, buffer, delivered, chunks, writes, commits, log, last_size, current_size>>

\* The tool call propose_structural_change(file, old_code, new_code, rationale)
ProposeStructuralChange ==
    /\ pc = "idle"
    /\ \E old_code, new_code \in SeqsUpTo(Chars, MaxCode), answers \in ApprovalInputs, build_ok \in BOOLEAN :
          LET t == tool_propose_structural_change(file, old_code, new_code, answers, build_ok)
          IN  /\ file' = t.file
              /\ change' = t.change
              /\ returned' = t.returned
              /\ commits' = commits \o t.committed
    /\ pc' = "proposed"
    /\ UNCHANGED <<gen, ev, text, parsed, batch, report, raised, saved, save_report, judge, outcomes, buffer, delivered, chunks, writes, log, last_size, current_size>>

NextModify == ApplyAndTest \/ ProposeStructuralChange

SpecModify == InitModify /\ [][NextModify]_vars

(***************************************************************************)
(* Claims about the modifier, checked under SpecModify.                    *)
(***************************************************************************)
\* The step in which apply_and_test ran.
TestStep == pc = "idle" /\ pc' = "tested"

\* apply_and_test applied the change and the build check then failed.
BuildFailedAfterChange == returned'.error = "Build failed after change"

\* C26: when apply_and_test applies the change and the build check fails,
\* on return result.success is false, change.applied is false and the file
\* content is what it was before the call; and when old_code does not occur
\* in the file the change fails with the file unchanged.
C26_RollbackRestoresFile ==
    [][TestStep =>
        /\ BuildFailedAfterChange =>
              /\ returned'.success = FALSE
              /\ change'.applied = FALSE
              /\ file' = file
        /\ (file # <<>> /\ FindFirst(change'.old_code, file[1]) = 0) =>
              /\ returned'.success = FALSE
              /\ file' = file]_vars

\* The part of C26 the code keeps: success and applied are false after a
\* failed build, a change whose old_code is absent fails with the file
\* unchanged, and the file is restored whenever the first occurrence of
\* new_code in the changed file is the one the change wrote.
C26_RollbackOfFirstOccurrence ==
    [][TestStep =>
        /\ BuildFailedAfterChange =>
              /\ returned'.success = FALSE
              /\ change'.applied = FALSE
              /\ LET changed == ReplaceFirst(file[1], change'.old_code, change'.new_code)
                 IN  FindFirst(change'.new_code, changed) = FindFirst(change'.old_code, file[1])
                        => file' = file
        /\ (file # <<>> /\ FindFirst(change'.old_code, file[1]) = 0) =>
              /\ returned'.success = FALSE
              /\ file' = file]_vars

\* The step in which the structural-change tool ran.
ToolStep == pc = "idle" /\ pc' = "proposed"

\* C25: the propose_structural_change tool modifies the file only after
\* request_approval returned true; when approval is refused the file is
\* unchanged, nothing is committed, and the tool result reports approved =
\* false and applied = false.
C25_OnlyAfterApproval ==
    [][ToolStep =>
        /\ file' # file => (change'.approved /\ returned'.approved)
        /\ ~change'.approved =>
              /\ file' = file
              /\ commits' = commits
              /\ returned' = [approved |-> FALSE, applied |-> FALSE]]_vars

\* C25 witness: approval was refused for a change whose old_code occurs in
\* the file and whose new_code differs, so that applying it would have
\* changed the file.
C25_Witness ==
    /\ pc = "proposed"
    /\ returned = [approved |-> FALSE, applied |-> FALSE]
    /\ file # <<>>
    /\ change.old_code # change.new_code
    /\ FindFirst(change.old_code, file[1]) # 0
    /\ commits = <<>>

\* C25 witness of the approved path: the change was applied and committed.
C25_WitnessApplied ==
    /\ pc = "proposed"
    /\ returned = [approved |-> TRUE, applied |-> TRUE]
    /\ commits = <<file[1]>>

(***************************************************************************)
(* Specification SpecTail: ConsoleWatcher.watch_file on a log file the app *)
(* appends to.  The app writes a generation as one burst of complete       *)
(* lines (config, item lines, metrics); sizes and offsets are counted in   *)
(* lines.  An iteration of the watch loop takes two steps, stat() and the  *)
(* read to the end of the file, and the app may append in between.         *)
(***************************************************************************)
MaxAppends == 3

\* The generations the app logs.
GenerationTexts ==
    << <<RenderedConfigs[1], RenderedSlots[1], RenderedMetrics[1]>>,
       <<RenderedConfigs[2], RenderedSlots[2], RenderedSlots[3], RenderedMetrics[4]>> >>

\* new_content.split("\n") of lines that each end with a line break: the
\* lines, then the empty string after the last break.
SplitContent(lines) == lines \o <<OddLines[6]>>

InitTail ==
    /\ pc = "sleep"
    /\ gen = NoValue
    /\ ev = NoValue
    /\ text = <<>>
    /\ parsed = NoValue
    /\ batch = <<>>
    /\ report = NoValue
    /\ raised = ""
    /\ saved = {}
    /\ save_report = TRUE
    /\ judge = NoValue
    /\ outcomes = <<>>
    /\ buffer = <<>>
    /\ delivered = <<>>
    /\ chunks = 0
    /\ OtherParts

\* The app appends one generation to the log file.
AppendGeneration ==
    /\ pc # "failed"
    /\ Len(LinesOfKind(log, "config")) < MaxAppends
    /\ \E g \in DOMAIN GenerationTexts : log' = log \o GenerationTexts[g]
    /\ UNCHANGED <<pc, gen, ev, text, parsed, batch, report, raised, saved, save_report, judge, outcomes, buffer, delivered, chunks, writes, file, change, returned, commits, last_size, current_size>>

\* current_size = file_path.stat().st_size; if current_size > last_size
Stat ==
    /\ pc = "sleep"
    /\ Len(log) > last_size
    /\ current_size' = Len(log)
    /\ pc' = "read"
    /\ UNCHANGED <<gen, ev, text, parsed, batch, report, raised, saved, save_report, judge, outcomes, buffer, delivered, chunks, writes, file, change, returned, commits, log, last_size>>

\* f.seek(last_size); new_content = f.read(); _process_content(new_content);
\* last_size = current_size
Read ==
    /\ pc = "read"
    /\ text' = SplitContent(SubSeq(log, last_size + 1, Len(log)))
    /\ chunks' = chunks + 1
    /\ HandleContent
    /\ last_size' = IF raised' = "" THEN current_size ELSE last_size
    /\ pc' = IF raised' = "" THEN "sleep" ELSE "failed"
    /\ UNCHANGED <<batch, report, saved, save_report, judge, outcomes, writes, file, change, returned, commits, log, current_size>>

NextTail == AppendGeneration \/ Stat \/ Read

SpecTail == InitTail /\ [][NextTail]_vars

\* The generations appended to the log, in order.
RECURSIVE AppendedGenerations(_)
AppendedGenerations(lines) ==
    IF lines = <<>> THEN <<>>
    ELSE LET g == CHOOSE k \in DOMAIN GenerationTexts :
                     /\ Len(GenerationTexts[k]) <= Len(lines)
                     /\ SubSeq(lines, 1, Len(GenerationTexts[k])) = GenerationTexts[k]
         IN  <<GenerationTexts[g]>> \o AppendedGenerations(SubSeq(lines, Len(GenerationTexts[g]) + 1, Len(lines)))

\* The watcher has read everything that was appended and is idle.
CaughtUp == pc = "sleep" /\ last_size = Len(log)

\* C27: however the appended text falls into read chunks, each generation
\* whose config and metrics line were appended is delivered to on_generation
\* exactly once: once the watcher has read all that was appended, the
\* deliveries are the appended generations, one each, none lost, merged or
\* repeated.
C27_EachGenerationOnce ==
    CaughtUp =>
        LET appended == AppendedGenerations(log)
        IN  delivered = [k \in DOMAIN appended |-> parse(appended[k])]

\* The part of C27 the code keeps: a generation that is read before the next
\* one is appended is delivered as it was logged.
C27_FirstOfASingleRead ==
    (CaughtUp /\ Len(AppendedGenerations(log)) = 1) =>
        delivered = <<parse(AppendedGenerations(log)[1])>>

(***************************************************************************)
(* Claims about generations built from log text, checked under SpecParse.  *)
(***************************************************************************)
GatePassed(e, name) ==
    \E i \in DOMAIN e.hard_requirements :
        e.hard_requirements[i].name = name /\ e.hard_requirements[i].passed

C28_WitnessSegCheck ==
    /\ pc = "evaluated"
    /\ parsed.issues # <<>>
    /\ \E i \in DOMAIN text : text[i].kind = "seg_check"
    /\ GatePassed(ev, "Cooldown Duration")

(***************************************************************************)
(* Monotonicity of the piecewise scales, checked under Spec.               *)
(***************************************************************************)
\* The metric values of FitLevels and their neighbours one hundredth away:
\* both sides of every breakpoint, below 0 and above 1.0.
FitNeighbours == UNION {{x - 1, x, x + 1} : x \in FitLevels}

TempoScoreAt(y) == score_tempo_fitness([gen EXCEPT !.avg_tempo_fit = y]).score
SlotScoreAt(y) == score_slot_fitness([gen EXCEPT !.avg_slot_fit = y]).score

\* C29: with the slot list held fixed, the Tempo Fitness score never drops
\* when avg_tempo_fit rises and the Slot Fitness score never drops when
\* avg_slot_fit rises, across every breakpoint (0.50, 0.65, 0.75, 0.85).
C29_ScalesMonotone ==
    pc = "evaluated" =>
        /\ DimensionNamed(ev, "Tempo Fitness").score = TempoScoreAt(gen.avg_tempo_fit)
        /\ DimensionNamed(ev, "Slot Fitness").score = SlotScoreAt(gen.avg_slot_fit)
        /\ \A y \in FitNeighbours :
              /\ y >= gen.avg_tempo_fit => TempoScoreAt(y) >= TempoScoreAt(gen.avg_tempo_fit)
              /\ y <= gen.avg_tempo_fit => TempoScoreAt(y) <= TempoScoreAt(gen.avg_tempo_fit)
              /\ y >= gen.avg_slot_fit => SlotScoreAt(y) >= SlotScoreAt(gen.avg_slot_fit)
              /\ y <= gen.avg_slot_fit => SlotScoreAt(y) <= SlotScoreAt(gen.avg_slot_fit)

\* C29 witness: a generation just below the 0.65 breakpoint, with a track of
\* critical tempo fit, was scored, and crossing the breakpoint raises the score.
C29_Witness ==
    /\ pc = "evaluated"
    /\ gen.avg_tempo_fit = 64
    /\ \E i \in DOMAIN gen.slots : gen.slots[i].tempo_fit < 35
    /\ DimensionNamed(ev, "Tempo Fitness").score = TempoScoreAt(64)
    /\ TempoScoreAt(65) > TempoScoreAt(64)

\* C29 witness for the slot scale, just below the 0.65 breakpoint.
C29_WitnessSlotFit ==
    /\ pc = "evaluated"
    /\ gen.avg_slot_fit = 64
    /\ DimensionNamed(ev, "Slot Fitness").score = SlotScoreAt(64)
    /\ SlotScoreAt(65) > SlotScoreAt(64)

\* C30: the genre-filter recommendation is emitted only for a batch holding
\* at least one evaluation with a genre filter and at least one without.
C30_OnlyWithBothPartitions ==
    (pc = "compared" /\ Recommends("Genre filters may be too restrictive")) =>
        /\ ScoresWhere("genres", TRUE) # <<>>
        /\ ScoresWhere("genres", FALSE) # <<>>

\* The part of C30 the code meets: a batch in which every evaluation used a
\* genre filter never produces the recommendation.
C30_NeverWhenAllFiltered ==
    (pc = "compared" /\ Recommends("Genre filters may be too restrictive")) =>
        ScoresWhere("genres", FALSE) # <<>>

\* A batch in which every evaluation used a genre filter was compared.
C30_AllFilteredCompared ==
    /\ pc = "compared"
    /\ Len(batch) >= 2
    /\ ScoresWhere("genres", FALSE) = <<>>
====
